---- MODULE Spec2Model ----
(***************************************************************************)
(* Model of the persistence layer of sistema-gestor-tareas                 *)
(* (src/src/services/persistencia.py): the directory tree, the JSON and    *)
(* pickle stores, the pre-overwrite snapshots and their pruning.           *)
(*                                                                         *)
(* Files are records [bytes, mtime]; a directory is a function from file   *)
(* names to files; a file name is the sequence of the string parts it is   *)
(* concatenated from.  Python values and JSON documents are tagged         *)
(* records, so that what json.dump / json.load do to a value is computed   *)
(* and not assumed.                                                        *)
(***************************************************************************)
EXTENDS Integers, Sequences, FiniteSets, TLC

VARIABLES fs, now, ret, llamadas, mem

vars == <<fs, now, ret, llamadas, mem>>

(***************************************************************************)
(* Bounds of the model.                                                    *)
(***************************************************************************)
MaxLlamadas == 2
MaxTicks == 1
MaxDias == 1
TicksPerSecond == 2
SecondsPerDay == 86400

TicksPerDay == SecondsPerDay * TicksPerSecond

(***************************************************************************)
(* Python values.  Every value is a record whose tag (kind, tipo, op) is   *)
(* its first field, so that two values of different shapes differ on the   *)
(* tag.                                                                    *)
(***************************************************************************)
PyNone == [kind |-> "none"]
PyBool(b) == [kind |-> "bool", val |-> b]
PyInt(n) == [kind |-> "int", val |-> n]
PyStr(s) == [kind |-> "str", val |-> s]
PyList(s) == [kind |-> "list", val |-> s]
PyTuple(s) == [kind |-> "tuple", val |-> s]
PyDict(f) == [kind |-> "dict", val |-> f]
PyDatetime(n) == [kind |-> "datetime", val |-> n]
PyFunction == [kind |-> "function"]
\* an instance of Usuario / Tarea: val is the mapping its to_dict() returns
PyObj(f) == [kind |-> "obj", val |-> f]

to_dict(o) == PyDict(o.val)

\* str(v) for the values json.dump hands to default=str
str(v) ==
  CASE v.kind = "datetime" -> "datetime-" \o ToString(v.val)
    [] v.kind = "function" -> "<function>"
    [] v.kind = "obj" -> "<object>"
    [] OTHER -> "<?>"

RangeOf(f) == {f[x] : x \in DOMAIN f}
Indices(s) == 1..Len(s)

(***************************************************************************)
(* JSON documents (the text json.dump writes, as its parse tree).          *)
(***************************************************************************)
JNull == [tipo |-> "null"]
JBool(b) == [tipo |-> "boolean", valor |-> b]
JNumber(n) == [tipo |-> "number", valor |-> n]
JString(s) == [tipo |-> "string", valor |-> s]
JArray(s) == [tipo |-> "array", valor |-> s]
JObject(f) == [tipo |-> "object", valor |-> f]
\* a file cut short by a failed dump: a proper prefix of a document
JTruncado == [tipo |-> "truncado"]

\* pickle streams
Pickle(v) == [tipo |-> "pickle", obj |-> v]
PickleVacio == [tipo |-> "vacio"]

\* mutant: the items of a list are not converted
_preparar_sin_recorrer(datos) == IF datos.kind = "obj" THEN to_dict(datos) ELSE datos

RECURSIVE _preparar_datos_para_json(_)
_preparar_datos_para_json(datos) ==
  IF datos.kind = "obj" THEN to_dict(datos)
  ELSE IF datos.kind = "list"
    THEN PyList([i \in Indices(datos.val) |-> _preparar_datos_para_json(datos.val[i])])
  ELSE IF datos.kind = "dict"
    THEN PyDict([k \in DOMAIN datos.val |-> _preparar_datos_para_json(datos.val[k])])
  ELSE datos

\* json.dump accepts str, int, bool and None as mapping keys and raises
\* TypeError for any other key (default= is not applied to keys)
ClaveJsonValida(k) == k.kind \in {"str", "int", "bool", "none"}

ClaveJson(k) ==
  CASE k.kind = "str" -> k.val
    [] k.kind = "int" -> ToString(k.val)
    [] k.kind = "bool" -> (IF k.val THEN "true" ELSE "false")
    [] OTHER -> "null"

RECURSIVE JsonSerializable(_)
JsonSerializable(v) ==
  CASE v.kind \in {"list", "tuple"} ->
         \A i \in Indices(v.val) : JsonSerializable(v.val[i])
    [] v.kind = "dict" ->
         /\ \A k \in DOMAIN v.val : ClaveJsonValida(k)
         /\ \A k \in DOMAIN v.val : JsonSerializable(v.val[k])
    [] OTHER -> TRUE

RECURSIVE json_dump(_)
json_dump(v) ==
  CASE v.kind = "none" -> JNull
    [] v.kind = "bool" -> JBool(v.val)
    [] v.kind = "int" -> JNumber(v.val)
    [] v.kind = "str" -> JString(v.val)
    [] v.kind \in {"list", "tuple"} ->
         JArray([i \in Indices(v.val) |-> json_dump(v.val[i])])
    [] v.kind = "dict" ->
         JObject([s \in {ClaveJson(k) : k \in DOMAIN v.val} |->
                    json_dump(v.val[CHOOSE k \in DOMAIN v.val : ClaveJson(k) = s])])
    [] OTHER -> JString(str(v))

RECURSIVE json_load(_)
json_load(d) ==
  CASE d.tipo = "null" -> PyNone
    [] d.tipo = "boolean" -> PyBool(d.valor)
    [] d.tipo = "number" -> PyInt(d.valor)
    [] d.tipo = "string" -> PyStr(d.valor)
    [] d.tipo = "array" -> PyList([i \in Indices(d.valor) |-> json_load(d.valor[i])])
    [] OTHER -> PyDict([k \in {PyStr(s) : s \in DOMAIN d.valor} |-> json_load(d.valor[k.val])])

RECURSIVE Picklable(_)
Picklable(v) ==
  CASE v.kind = "function" -> FALSE
    [] v.kind \in {"list", "tuple"} -> \A i \in Indices(v.val) : Picklable(v.val[i])
    [] v.kind \in {"dict", "obj"} ->
         /\ \A k \in DOMAIN v.val : Picklable(k)
         /\ \A k \in DOMAIN v.val : Picklable(v.val[k])
    [] OTHER -> TRUE

\* mutant: a codec that leaves out the fields whose value is None
RECURSIVE SinNulos(_)
SinNulos(v) ==
  CASE v.kind = "list" -> PyList([i \in Indices(v.val) |-> SinNulos(v.val[i])])
    [] v.kind = "dict" ->
         PyDict([k \in {x \in DOMAIN v.val : v.val[x] # PyNone} |-> SinNulos(v.val[k])])
    [] OTHER -> v
pickle_dump_sin_nulos(v) == Pickle(SinNulos(v))

pickle_dump(v) == Pickle(v)
pickle_load(b) == b.obj

(***************************************************************************)
(* GestorArchivos: the directory tree and the paths in it.                 *)
(***************************************************************************)
EndsWith(nombre, ext) == Len(nombre) > 0 /\ nombre[Len(nombre)] = ext

obtener_ruta_json(nombre_archivo) ==
  [dir |-> "json",
   archivo |-> IF EndsWith(nombre_archivo, ".json") THEN nombre_archivo
               ELSE Append(nombre_archivo, ".json")]

\* mutant: the pickle store resolves its files in the JSON directory
obtener_ruta_binario_en_json(nombre_archivo) ==
  [dir |-> "json",
   archivo |-> IF EndsWith(nombre_archivo, ".pkl") THEN nombre_archivo
               ELSE Append(nombre_archivo, ".pkl")]

obtener_ruta_binario(nombre_archivo) ==
  [dir |-> "binarios",
   archivo |-> IF EndsWith(nombre_archivo, ".pkl") THEN nombre_archivo
               ELSE Append(nombre_archivo, ".pkl")]

\* mutant: the timestamp keeps the fraction of the second
strftime_sin_truncar(t) == ToString(t)

\* datetime.now().strftime("%Y%m%d_%H%M%S"): the clock reading cut to whole seconds
strftime(t) == ToString(t \div TicksPerSecond)

obtener_ruta_backup(nombre_archivo, t) ==
  [dir |-> "backups", archivo |-> Append(nombre_archivo, "_" \o strftime(t))]

Existe(f, ruta) == ruta.archivo \in DOMAIN f[ruta.dir]
Leer(f, ruta) == f[ruta.dir][ruta.archivo]
Escribir(f, ruta, archivo) == [f EXCEPT ![ruta.dir] = (ruta.archivo :> archivo) @@ @]
Borrar(f, ruta) ==
  [f EXCEPT ![ruta.dir] = [n \in (DOMAIN @) \ {ruta.archivo} |-> @[n]]]

\* shutil.copy2 copies the bytes and the modification time
copy2(f, origen, destino) == Escribir(f, destino, Leer(f, origen))

SinRuta == [dir |-> "", archivo |-> << >>]

(***************************************************************************)
(* PersistenciaJSON.  An operation is an operator from the file system,    *)
(* the clock, the arguments and the outcome of the I/O calls it makes to   *)
(* the file system it leaves and what it returns or raises.                *)
(***************************************************************************)
\* _crear_backup of either store: ext is ".json" or ".pkl"
_crear_backup(f, t, ruta_archivo, nombre_base, ext, copia_falla) ==
  LET ruta_backup == obtener_ruta_backup(Append(nombre_base, ext), t)
  IN IF copia_falla THEN f ELSE copy2(f, ruta_archivo, ruta_backup)

\* mutant: the file is written first and copied to the backups afterwards
json_guardar_datos_escribe_primero(f, t, nombre_archivo, datos, crear_backup, copia_falla, open_falla) ==
  LET ruta_archivo == obtener_ruta_json(nombre_archivo)
      respalda == crear_backup /\ Existe(f, ruta_archivo)
      datos_json == _preparar_datos_para_json(datos)
      info == [ruta |-> ruta_archivo,
               existia |-> Existe(f, ruta_archivo),
               open_falla |-> open_falla,
               copia |-> IF ~respalda THEN "no" ELSE IF copia_falla THEN "falla" ELSE "ok",
               ruta_backup |-> IF respalda
                                 THEN obtener_ruta_backup(Append(nombre_archivo, ".json"), t)
                                 ELSE SinRuta]
      escrito == IF open_falla THEN f
                 ELSE IF ~JsonSerializable(datos_json)
                   THEN Escribir(f, ruta_archivo, [bytes |-> JTruncado, mtime |-> t])
                 ELSE Escribir(f, ruta_archivo, [bytes |-> json_dump(datos_json), mtime |-> t])
      f1 == IF respalda
              THEN _crear_backup(escrito, t, ruta_archivo, nombre_archivo, ".json", copia_falla)
              ELSE escrito
  IN IF open_falla
       THEN [fs |-> f1, sale |-> "IOError", retorno |-> PyNone, info |-> info]
     ELSE IF ~JsonSerializable(datos_json)
       THEN [fs |-> f1, sale |-> "ValueError", retorno |-> PyNone, info |-> info]
     ELSE [fs |-> f1, sale |-> "return", retorno |-> PyBool(TRUE), info |-> info]

json_guardar_datos(f, t, nombre_archivo, datos, crear_backup, copia_falla, open_falla) ==
  LET ruta_archivo == obtener_ruta_json(nombre_archivo)
      respalda == crear_backup /\ Existe(f, ruta_archivo)
      f1 == IF respalda
              THEN _crear_backup(f, t, ruta_archivo, nombre_archivo, ".json", copia_falla)
              ELSE f
      datos_json == _preparar_datos_para_json(datos)
      info == [ruta |-> ruta_archivo,
               existia |-> Existe(f, ruta_archivo),
               open_falla |-> open_falla,
               copia |-> IF ~respalda THEN "no" ELSE IF copia_falla THEN "falla" ELSE "ok",
               ruta_backup |-> IF respalda
                                 THEN obtener_ruta_backup(Append(nombre_archivo, ".json"), t)
                                 ELSE SinRuta]
  IN IF open_falla
       THEN [fs |-> f1, sale |-> "IOError", retorno |-> PyNone, info |-> info]
     ELSE IF ~JsonSerializable(datos_json)
       THEN [fs |-> Escribir(f1, ruta_archivo, [bytes |-> JTruncado, mtime |-> t]),
             sale |-> "ValueError", retorno |-> PyNone, info |-> info]
     ELSE [fs |-> Escribir(f1, ruta_archivo, [bytes |-> json_dump(datos_json), mtime |-> t]),
           sale |-> "return", retorno |-> PyBool(TRUE), info |-> info]

\* mutant: the decode error is not caught
json_cargar_datos_lanza(f, nombre_archivo, lectura_falla) ==
  LET ruta_archivo == obtener_ruta_json(nombre_archivo)
  IN IF ~Existe(f, ruta_archivo)
       THEN [sale |-> "return", retorno |-> PyNone, aviso |-> "FileNotFoundError"]
     ELSE IF lectura_falla
       THEN [sale |-> "return", retorno |-> PyNone, aviso |-> "IOError"]
     ELSE IF Leer(f, ruta_archivo).bytes.tipo = "truncado"
       THEN [sale |-> "JSONDecodeError", retorno |-> PyNone, aviso |-> ""]
     ELSE [sale |-> "return", retorno |-> json_load(Leer(f, ruta_archivo).bytes),
           aviso |-> ""]

json_cargar_datos(f, nombre_archivo, lectura_falla) ==
  LET ruta_archivo == obtener_ruta_json(nombre_archivo)
  IN IF ~Existe(f, ruta_archivo)
       THEN [sale |-> "return", retorno |-> PyNone, aviso |-> "FileNotFoundError"]
     ELSE IF lectura_falla
       THEN [sale |-> "return", retorno |-> PyNone, aviso |-> "IOError"]
     ELSE IF Leer(f, ruta_archivo).bytes.tipo = "truncado"
       THEN [sale |-> "return", retorno |-> PyNone, aviso |-> "JSONDecodeError"]
     ELSE [sale |-> "return", retorno |-> json_load(Leer(f, ruta_archivo).bytes),
           aviso |-> ""]

(***************************************************************************)
(* PersistenciaBinaria.                                                    *)
(***************************************************************************)
\* mutant: a failed backup copy ends the save
bin_guardar_datos_backup_obligatorio(f, t, nombre_archivo, datos, crear_backup, copia_falla, open_falla) ==
  LET ruta_archivo == obtener_ruta_binario(nombre_archivo)
      respalda == crear_backup /\ Existe(f, ruta_archivo)
      f1 == IF respalda
              THEN _crear_backup(f, t, ruta_archivo, nombre_archivo, ".pkl", copia_falla)
              ELSE f
      info == [ruta |-> ruta_archivo,
               existia |-> Existe(f, ruta_archivo),
               open_falla |-> open_falla,
               copia |-> IF ~respalda THEN "no" ELSE IF copia_falla THEN "falla" ELSE "ok",
               ruta_backup |-> IF respalda
                                 THEN obtener_ruta_backup(Append(nombre_archivo, ".pkl"), t)
                                 ELSE SinRuta]
  IN IF open_falla \/ (respalda /\ copia_falla)
       THEN [fs |-> f1, sale |-> "return", retorno |-> PyBool(FALSE), info |-> info]
     ELSE IF ~Picklable(datos)
       THEN [fs |-> Escribir(f1, ruta_archivo, [bytes |-> PickleVacio, mtime |-> t]),
             sale |-> "return", retorno |-> PyBool(FALSE), info |-> info]
     ELSE [fs |-> Escribir(f1, ruta_archivo, [bytes |-> pickle_dump(datos), mtime |-> t]),
           sale |-> "return", retorno |-> PyBool(TRUE), info |-> info]

bin_guardar_datos(f, t, nombre_archivo, datos, crear_backup, copia_falla, open_falla) ==
  LET ruta_archivo == obtener_ruta_binario(nombre_archivo)
      respalda == crear_backup /\ Existe(f, ruta_archivo)
      f1 == IF respalda
              THEN _crear_backup(f, t, ruta_archivo, nombre_archivo, ".pkl", copia_falla)
              ELSE f
      info == [ruta |-> ruta_archivo,
               existia |-> Existe(f, ruta_archivo),
               open_falla |-> open_falla,
               copia |-> IF ~respalda THEN "no" ELSE IF copia_falla THEN "falla" ELSE "ok",
               ruta_backup |-> IF respalda
                                 THEN obtener_ruta_backup(Append(nombre_archivo, ".pkl"), t)
                                 ELSE SinRuta]
  IN IF open_falla
       THEN [fs |-> f1, sale |-> "return", retorno |-> PyBool(FALSE), info |-> info]
     ELSE IF ~Picklable(datos)
       THEN [fs |-> Escribir(f1, ruta_archivo, [bytes |-> PickleVacio, mtime |-> t]),
             sale |-> "return", retorno |-> PyBool(FALSE), info |-> info]
     ELSE [fs |-> Escribir(f1, ruta_archivo, [bytes |-> pickle_dump(datos), mtime |-> t]),
           sale |-> "return", retorno |-> PyBool(TRUE), info |-> info]

\* mutant: the missing file is not caught
bin_cargar_datos_sin_archivo(f, nombre_archivo, lectura_falla) ==
  LET ruta_archivo == obtener_ruta_binario(nombre_archivo)
  IN IF ~Existe(f, ruta_archivo)
       THEN [sale |-> "FileNotFoundError", retorno |-> PyNone, aviso |-> ""]
     ELSE IF lectura_falla
       THEN [sale |-> "return", retorno |-> PyNone, aviso |-> "IOError"]
     ELSE IF Leer(f, ruta_archivo).bytes.tipo = "vacio"
       THEN [sale |-> "EOFError", retorno |-> PyNone, aviso |-> ""]
     ELSE [sale |-> "return", retorno |-> pickle_load(Leer(f, ruta_archivo).bytes),
           aviso |-> ""]

bin_cargar_datos(f, nombre_archivo, lectura_falla) ==
  LET ruta_archivo == obtener_ruta_binario(nombre_archivo)
  IN IF ~Existe(f, ruta_archivo)
       THEN [sale |-> "return", retorno |-> PyNone, aviso |-> "FileNotFoundError"]
     ELSE IF lectura_falla
       THEN [sale |-> "return", retorno |-> PyNone, aviso |-> "IOError"]
     ELSE IF Leer(f, ruta_archivo).bytes.tipo = "vacio"
       THEN [sale |-> "EOFError", retorno |-> PyNone, aviso |-> ""]
     ELSE [sale |-> "return", retorno |-> pickle_load(Leer(f, ruta_archivo).bytes),
           aviso |-> ""]

(***************************************************************************)
(* GestorPersistencia.limpiar_backups_antiguos.  orden is the order in     *)
(* which os.listdir returns the snapshots; falla is the position of the    *)
(* entry whose os.remove raises (0: none does).  The exception leaves the  *)
(* loop and the handler returns 0.                                         *)
(***************************************************************************)
RECURSIVE RecorrerBackups(_, _, _, _, _, _)
RecorrerBackups(f, orden, i, archivos_eliminados, fecha_limite, falla) ==
  IF i > Len(orden)
    THEN [fs |-> f, retorno |-> PyInt(archivos_eliminados),
          eliminados |-> archivos_eliminados, sale |-> "return"]
  ELSE LET ruta_completa == [dir |-> "backups", archivo |-> orden[i]]
       IN IF Existe(f, ruta_completa) /\ Leer(f, ruta_completa).mtime < fecha_limite
            THEN IF falla = i
                   THEN [fs |-> f, retorno |-> PyInt(0),
                         eliminados |-> archivos_eliminados, sale |-> "return"]
                   ELSE RecorrerBackups(Borrar(f, ruta_completa), orden, i + 1,
                                        archivos_eliminados + 1, fecha_limite, falla)
            ELSE RecorrerBackups(f, orden, i + 1, archivos_eliminados, fecha_limite, falla)

\* mutant: a snapshot whose modification time is the cutoff is removed too
limpiar_backups_antiguos_inclusive(f, t, dias_antiguedad, orden, falla) ==
  RecorrerBackups(f, orden, 1, 0, t - dias_antiguedad * TicksPerDay + 1, falla)

limpiar_backups_antiguos(f, t, dias_antiguedad, orden, falla) ==
  RecorrerBackups(f, orden, 1, 0, t - dias_antiguedad * TicksPerDay, falla)

Permutaciones(S) ==
  {p \in [1..Cardinality(S) -> S] : \A a, b \in 1..Cardinality(S) : a # b => p[a] # p[b]}

(***************************************************************************)
(* Inputs.                                                                 *)
(***************************************************************************)
archivo_usuarios == <<"usuarios">>
archivo_tareas == <<"tareas">>
Nombres == {archivo_usuarios, archivo_tareas}
Formatos == {"json", "binario"}

UnUsuario ==
  PyList(<<PyObj((PyStr("id") :> PyStr("u1")) @@ (PyStr("telefono") :> PyNone))>>)
ListaVacia == PyList(<< >>)
\* a mapping keyed by a function: json.dump raises TypeError, pickle.dump PicklingError
NoSerializable == PyList(<<PyDict(PyFunction :> PyInt(1))>>)
Datos == {UnUsuario, NoSerializable}
Dias == {0, 1}

(***************************************************************************)
(* Collections for the round trips: records with absent, null, scalar and  *)
(* nested fields, an object with to_dict, and records holding values JSON  *)
(* has no form for (a tuple, a datetime, an integer key).                  *)
(***************************************************************************)
Campo(k, v) == PyStr(k) :> v
RegistroVacio == PyDict(<< >>)
RegistroNulo == PyDict(Campo("a", PyNone))
RegistroEscalar == PyDict(Campo("a", PyStr("x")) @@ Campo("b", PyInt(1)))
RegistroAnidado ==
  PyDict(Campo("a", PyList(<<PyStr("t1"), PyDict(Campo("n", PyNone))>>))
           @@ Campo("m", PyDict(Campo("s", PyList(<< >>)))))
ObjetoUsuario ==
  PyObj(Campo("id", PyStr("u1")) @@ Campo("telefono", PyNone)
          @@ Campo("tareas_asignadas", PyList(<<PyStr("t1")>>)))
RegistroTupla == PyDict(Campo("a", PyTuple(<<PyInt(1)>>)))
RegistroFecha == PyDict(Campo("a", PyDatetime(5)))
RegistroClaveEntera == PyDict(PyInt(3) :> PyStr("x"))

Items == {RegistroVacio, RegistroNulo, RegistroEscalar, RegistroAnidado, ObjetoUsuario,
          RegistroTupla, RegistroFecha, RegistroClaveEntera}
Colecciones ==
  {PyList(<< >>)} \cup {PyList(<<i>>) : i \in Items}
    \cup {PyList(<<i, j>>) : i \in Items, j \in {RegistroNulo, ObjetoUsuario}}

(***************************************************************************)
(* The state machine: one action per public operation.                     *)
(***************************************************************************)
\* A root is new, or holds what an earlier session saved: the users at tick 0
\* and the tasks at tick 1, both in one format.  The session starts at tick 2.
RaizNueva == [json |-> << >>, binarios |-> << >>, backups |-> << >>]

RaizJson ==
  json_guardar_datos(
    json_guardar_datos(RaizNueva, 0, archivo_usuarios, UnUsuario, TRUE, FALSE, FALSE).fs,
    1, archivo_tareas, ListaVacia, TRUE, FALSE, FALSE).fs

RaizBinaria ==
  bin_guardar_datos(
    bin_guardar_datos(RaizNueva, 0, archivo_usuarios, UnUsuario, TRUE, FALSE, FALSE).fs,
    1, archivo_tareas, ListaVacia, TRUE, FALSE, FALSE).fs

Raices == {RaizNueva, RaizJson, RaizBinaria}
Inicio == TicksPerSecond

\* mem holds the objects of the process other than the stores; the persistence
\* layer keeps none between two calls
SinObjetos == << >>

Init ==
  /\ fs \in Raices
  /\ now = Inicio
  /\ ret = [op |-> "__init__"]
  /\ llamadas = 0
  /\ mem = SinObjetos

\* what a save leaves in the state: r is the result of the store's guardar_datos
Guardado(tienda, nombre_archivo, datos, crear_backup, r) ==
  /\ fs' = r.fs
  /\ ret' = [op |-> "guardar_datos", tienda |-> tienda, nombre |-> nombre_archivo,
             datos |-> datos, crear_backup |-> crear_backup, sale |-> r.sale,
             retorno |-> r.retorno, info |-> r.info, antes |-> fs, at |-> now]
  /\ llamadas' = llamadas + 1
  /\ UNCHANGED <<now, mem>>

JsonGuardarDatos(nombre_archivo, datos, crear_backup) ==
  /\ llamadas < MaxLlamadas
  /\ \E copia_falla \in IF crear_backup /\ Existe(fs, obtener_ruta_json(nombre_archivo))
                          THEN BOOLEAN ELSE {FALSE},
        open_falla \in BOOLEAN :
       Guardado("json", nombre_archivo, datos, crear_backup,
                json_guardar_datos(fs, now, nombre_archivo, datos, crear_backup,
                                   copia_falla, open_falla))

BinGuardarDatos(nombre_archivo, datos, crear_backup) ==
  /\ llamadas < MaxLlamadas
  /\ \E copia_falla \in IF crear_backup /\ Existe(fs, obtener_ruta_binario(nombre_archivo))
                          THEN BOOLEAN ELSE {FALSE},
        open_falla \in BOOLEAN :
       Guardado("binario", nombre_archivo, datos, crear_backup,
                bin_guardar_datos(fs, now, nombre_archivo, datos, crear_backup,
                                  copia_falla, open_falla))

FormatoInvalido(op) ==
  /\ ret' = [op |-> op, sale |-> "ValueError", retorno |-> PyNone, antes |-> fs]
  /\ UNCHANGED <<fs, now, llamadas, mem>>

GuardarUsuarios(usuarios, formato) ==
  IF formato = "json" THEN JsonGuardarDatos(archivo_usuarios, usuarios, TRUE)
  ELSE IF formato = "binario" THEN BinGuardarDatos(archivo_usuarios, usuarios, TRUE)
  ELSE FormatoInvalido("guardar_usuarios")

GuardarTareas(tareas, formato) ==
  IF formato = "json" THEN JsonGuardarDatos(archivo_tareas, tareas, TRUE)
  ELSE IF formato = "binario" THEN BinGuardarDatos(archivo_tareas, tareas, TRUE)
  ELSE FormatoInvalido("guardar_tareas")

Cargado(tienda, nombre_archivo, r) ==
  /\ ret' = [op |-> "cargar_datos", tienda |-> tienda, nombre |-> nombre_archivo,
             sale |-> r.sale, retorno |-> r.retorno, aviso |-> r.aviso, antes |-> fs]
  /\ UNCHANGED <<fs, now, llamadas, mem>>

JsonCargarDatos(nombre_archivo) ==
  \E lectura_falla \in IF Existe(fs, obtener_ruta_json(nombre_archivo))
                            THEN BOOLEAN ELSE {FALSE} :
       Cargado("json", nombre_archivo, json_cargar_datos(fs, nombre_archivo, lectura_falla))

BinCargarDatos(nombre_archivo) ==
  \E lectura_falla \in IF Existe(fs, obtener_ruta_binario(nombre_archivo))
                            THEN BOOLEAN ELSE {FALSE} :
       Cargado("binario", nombre_archivo, bin_cargar_datos(fs, nombre_archivo, lectura_falla))

CargarUsuarios(formato) ==
  IF formato = "json" THEN JsonCargarDatos(archivo_usuarios)
  ELSE IF formato = "binario" THEN BinCargarDatos(archivo_usuarios)
  ELSE FormatoInvalido("cargar_usuarios")

CargarTareas(formato) ==
  IF formato = "json" THEN JsonCargarDatos(archivo_tareas)
  ELSE IF formato = "binario" THEN BinCargarDatos(archivo_tareas)
  ELSE FormatoInvalido("cargar_tareas")

LimpiarBackupsAntiguos(dias_antiguedad) ==
  \E orden \in Permutaciones(DOMAIN fs.backups) :
       \E falla \in {0} \cup {i \in 1..Len(orden) :
                        fs.backups[orden[i]].mtime < now - dias_antiguedad * TicksPerDay} :
         LET r == limpiar_backups_antiguos(fs, now, dias_antiguedad, orden, falla)
         IN /\ fs' = r.fs
            /\ ret' = [op |-> "limpiar_backups_antiguos", dias |-> dias_antiguedad,
                       falla |-> falla # 0, sale |-> r.sale, retorno |-> r.retorno,
                       eliminados |-> r.eliminados, antes |-> fs, at |-> now]
  /\ UNCHANGED <<now, llamadas, mem>>

\* the clock advances between two calls, by less than a second or by a day
Tick ==
  /\ \/ /\ (now % TicksPerDay) - Inicio < MaxTicks
        /\ now' = now + 1
     \/ /\ now \div TicksPerDay < MaxDias
        /\ now' = now + TicksPerDay
  /\ UNCHANGED <<fs, ret, llamadas, mem>>

(***************************************************************************)
(* Properties of the stores.  ret holds the last call: its arguments, what *)
(* it returned or raised, the instant (at) and the file system it found    *)
(* (antes).                                                                *)
(***************************************************************************)
EsGuardar == ret.op = "guardar_datos"
EsCargar == ret.op = "cargar_datos"
EsLimpiar == ret.op = "limpiar_backups_antiguos"

DirDe(tienda) == IF tienda = "json" THEN "json" ELSE "binarios"
ExtDe(tienda) == IF tienda = "json" THEN ".json" ELSE ".pkl"
\* the file of a collection in a format, written out: {dir}/{collection}{ext}
ArchivoDe(tienda, nombre) == [dir |-> DirDe(tienda), archivo |-> Append(nombre, ExtDe(tienda))]

\* C1 as claimed: after a save with crear_backup over an existing file, the
\* content that was overwritten can be read from some snapshot.
C1_SiempreHaySnapshot ==
  (EsGuardar /\ ret.crear_backup /\ ret.info.existia) =>
    \E n \in DOMAIN fs.backups : fs.backups[n] = Leer(ret.antes, ret.info.ruta)

\* C1 amended: a save with crear_backup over an existing file attempts the copy
\* before it writes, and when the copy succeeds the snapshot named for this
\* collection, format and second holds the file as it was before the save.
C1_BackupAntesDeSobrescribir ==
  (EsGuardar /\ ret.crear_backup /\ ret.info.existia) =>
    /\ ret.info.copia \in {"ok", "falla"}
    /\ ret.info.copia = "ok" =>
         /\ Existe(fs, ret.info.ruta_backup)
         /\ Leer(fs, ret.info.ruta_backup) = Leer(ret.antes, ret.info.ruta)

\* a save replaced a file by something else and the snapshot kept the old file
C1_Witness ==
  /\ EsGuardar /\ ret.crear_backup /\ ret.info.existia /\ ret.info.copia = "ok"
  /\ Existe(fs, ret.info.ruta)
  /\ Leer(fs, ret.info.ruta) # Leer(ret.antes, ret.info.ruta)
  /\ Leer(fs, ret.info.ruta_backup) = Leer(ret.antes, ret.info.ruta)

Corrupto(archivo) == archivo.bytes.tipo \in {"truncado", "vacio"}
SinDatos == ret.sale = "return" /\ ret.retorno = PyNone
CargaDe(tienda, nombre) == EsCargar /\ ret.tienda = tienda /\ ret.nombre = nombre
RutaCargada == ArchivoDe(ret.tienda, ret.nombre)

ArchivosDeColeccion(f) ==
  {[dir |-> d, archivo |-> n] : d \in {"json"}, n \in DOMAIN f.json}
    \cup {[dir |-> d, archivo |-> n] : d \in {"binarios"}, n \in DOMAIN f.binarios}

SinCambio(f, g, ruta) ==
  /\ Existe(f, ruta) <=> Existe(g, ruta)
  /\ Existe(f, ruta) /\ Existe(g, ruta) => Leer(f, ruta) = Leer(g, ruta)

\* C3: a save changes no collection file but the one of its collection and
\* format: every other file of the json and binarios directories is as before.
C3_SoloCambiaElArchivoNombrado ==
  EsGuardar =>
    /\ ret.info.ruta = ArchivoDe(ret.tienda, ret.nombre)
    /\ \A ruta \in ArchivosDeColeccion(fs) \cup ArchivosDeColeccion(ret.antes) :
         ruta # ArchivoDe(ret.tienda, ret.nombre) => SinCambio(fs, ret.antes, ruta)

\* a save changed its own file while the same collection's file in the other
\* format and the other collection's file in the same format stayed as they were
C3_Witness ==
  /\ EsGuardar /\ ret.sale = "return" /\ ret.retorno = PyBool(TRUE)
  /\ ~SinCambio(fs, ret.antes, ArchivoDe(ret.tienda, ret.nombre))
  /\ \E otra \in Formatos \ {ret.tienda} : Existe(fs, ArchivoDe(otra, ret.nombre))
  /\ \E otro \in Nombres \ {ret.nombre} : Existe(fs, ArchivoDe(ret.tienda, otro))

\* C6 as claimed: a JSON save that raises ValueError has written nothing to
\* the collection's file.
C6_ErrorAntesDeEscribir ==
  (EsGuardar /\ ret.tienda = "json" /\ ret.sale = "ValueError") =>
    SinCambio(fs, ret.antes, ret.info.ruta)

Elegibles(f, limite) == {n \in DOMAIN f.backups : f.backups[n].mtime < limite}
FechaLimite == ret.at - ret.dias * SecondsPerDay * TicksPerSecond
Borrados == (DOMAIN ret.antes.backups) \ (DOMAIN fs.backups)

\* C7 as claimed: when the removal of one snapshot fails the other eligible
\* snapshots are still removed, and the value returned is the number of
\* snapshots the call removed.
C7_FalloNoDetieneLimpieza ==
  EsLimpiar =>
    /\ ret.retorno = PyInt(Cardinality(Borrados))
    /\ ret.falla => Cardinality(Elegibles(fs, FechaLimite)) <= 1

\* C8: when no removal fails, the snapshots removed are exactly those whose
\* modification time is earlier than now - days; the others stay, with their
\* content, the collection files stay as they were and the count is returned.
C8_LimpiezaExacta ==
  (EsLimpiar /\ ~ret.falla) =>
    /\ DOMAIN fs.backups = (DOMAIN ret.antes.backups) \ Elegibles(ret.antes, FechaLimite)
    /\ \A n \in DOMAIN fs.backups : fs.backups[n] = ret.antes.backups[n]
    /\ fs.json = ret.antes.json /\ fs.binarios = ret.antes.binarios
    /\ ret.sale = "return"
    /\ ret.retorno = PyInt(Cardinality(Elegibles(ret.antes, FechaLimite)))

\* a prune removed one snapshot and kept another, whose mtime is the cutoff
C8_Witness ==
  /\ EsLimpiar /\ ~ret.falla /\ ret.dias = 1 /\ ret.retorno = PyInt(1)
  /\ \E n \in DOMAIN fs.backups : fs.backups[n].mtime = FechaLimite

EscrituraPosible ==
  /\ ~ret.info.open_falla
  /\ IF ret.tienda = "json" THEN JsonSerializable(_preparar_datos_para_json(ret.datos))
                            ELSE Picklable(ret.datos)

\* C9: a save whose backup copy fails and whose own write goes through returns
\* True and leaves the new data in the collection file.
C9_BackupFallidoNoFallaElGuardado ==
  (EsGuardar /\ ret.info.copia = "falla" /\ EscrituraPosible) =>
    /\ ret.sale = "return" /\ ret.retorno = PyBool(TRUE)
    /\ Existe(fs, ret.info.ruta)
    /\ Leer(fs, ret.info.ruta).mtime = ret.at
    /\ Leer(fs, ret.info.ruta).bytes =
         IF ret.tienda = "json" THEN json_dump(_preparar_datos_para_json(ret.datos))
                                ELSE pickle_dump(ret.datos)
    /\ fs.backups = ret.antes.backups

\* the copy failed, the save returned True and the file changed
C9_Witness ==
  /\ EsGuardar /\ ret.info.copia = "falla" /\ ret.retorno = PyBool(TRUE)
  /\ Leer(fs, ret.info.ruta) # Leer(ret.antes, ret.info.ruta)

Instantes == {Inicio + i + d * TicksPerDay : i \in 0..MaxTicks, d \in 0..MaxDias}
Segundo(t) == t \div TicksPerSecond
Extensiones == {".json", ".pkl"}

\* C10: the snapshot of a backup is named by collection, format and the clock
\* second: a backup in a second that already has a snapshot of the same file
\* replaces it (the directory does not grow and the snapshot holds what this
\* backup copied), any other backup adds exactly one file, and two backups get
\* the same name only if collection, format and second are all the same.
C10_UnSnapshotPorSegundo ==
  /\ (EsGuardar /\ ret.info.copia = "ok") =>
       /\ ret.info.ruta_backup.archivo =
            <<ret.nombre[1], ExtDe(ret.tienda), "_" \o ToString(Segundo(ret.at))>>
       /\ Leer(fs, ret.info.ruta_backup) = Leer(ret.antes, ret.info.ruta)
       /\ Cardinality(DOMAIN fs.backups) =
            Cardinality(DOMAIN ret.antes.backups)
              + (IF Existe(ret.antes, ret.info.ruta_backup) THEN 0 ELSE 1)
  /\ \A c1, c2 \in Nombres, e1, e2 \in Extensiones, t1, t2 \in Instantes :
       (obtener_ruta_backup(Append(c1, e1), t1) = obtener_ruta_backup(Append(c2, e2), t2))
         <=> (c1 = c2 /\ e1 = e2 /\ Segundo(t1) = Segundo(t2))

\* a backup replaced the snapshot an earlier backup made at another instant of
\* the same second
C10_Witness ==
  /\ EsGuardar /\ ret.info.copia = "ok"
  /\ Existe(ret.antes, ret.info.ruta_backup)
  /\ Leer(ret.antes, ret.info.ruta_backup) # Leer(fs, ret.info.ruta_backup)
  /\ Leer(ret.antes, ret.info.ruta).mtime # ret.at
  /\ Segundo(Leer(ret.antes, ret.info.ruta).mtime) = Segundo(ret.at)

Next ==
  \/ \E datos \in Datos, formato \in Formatos \cup {"xml"} : GuardarUsuarios(datos, formato)
  \/ \E datos \in Datos, formato \in Formatos \cup {"xml"} : GuardarTareas(datos, formato)
  \/ \E formato \in Formatos \cup {"xml"} : CargarUsuarios(formato)
  \/ \E formato \in Formatos \cup {"xml"} : CargarTareas(formato)
  \/ \E dias \in Dias : LimpiarBackupsAntiguos(dias)
  \/ Tick

Spec == Init /\ [][Next]_vars

(***************************************************************************)
(* Round trips: one root, the users' collection, every collection above.   *)
(***************************************************************************)
InitCodec ==
  /\ fs = RaizNueva
  /\ now = Inicio
  /\ ret = [op |-> "__init__"]
  /\ llamadas = 0
  /\ mem = SinObjetos

NextCodec ==
  \/ \E datos \in Colecciones, formato \in Formatos : GuardarUsuarios(datos, formato)
  \/ \E formato \in Formatos : CargarUsuarios(formato)

SpecCodec == InitCodec /\ [][NextCodec]_vars

\* the record of an item: what to_dict returns, or the mapping itself
Registro(item) == IF item.kind = "obj" THEN to_dict(item) ELSE item

RECURSIVE JsonNativo(_)
JsonNativo(v) ==
  CASE v.kind \in {"none", "bool", "int", "str"} -> TRUE
    [] v.kind = "list" -> \A i \in Indices(v.val) : JsonNativo(v.val[i])
    [] v.kind = "dict" ->
         /\ \A k \in DOMAIN v.val : k.kind = "str"
         /\ \A k \in DOMAIN v.val : JsonNativo(v.val[k])
    [] OTHER -> FALSE

GuardadoJson == EsGuardar /\ ret.tienda = "json" /\ ret.sale = "return"
GuardadoBinario == EsGuardar /\ ret.tienda = "binario" /\ ret.retorno = PyBool(TRUE)
CargaJson == json_cargar_datos(fs, ret.nombre, FALSE)
CargaBinaria == bin_cargar_datos(fs, ret.nombre, FALSE)

MismosRegistros(cargado, datos) ==
  /\ cargado.kind = "list"
  /\ Len(cargado.val) = Len(datos.val)
  /\ \A i \in Indices(datos.val) : cargado.val[i] = Registro(datos.val[i])

\* C4 as claimed: after a JSON save of any collection, the load returns as many
\* elements as were saved, the i-th equal to the record of the i-th item.
C4_IdaYVueltaJson ==
  GuardadoJson => (CargaJson.sale = "return" /\ MismosRegistros(CargaJson.retorno, ret.datos))

\* C4 amended: the same, for the collections whose records hold only strings,
\* integers, booleans, nulls, lists and mappings with string keys, at any depth.
C4_IdaYVueltaJsonNativo ==
  (GuardadoJson /\ \A i \in Indices(ret.datos.val) : JsonNativo(Registro(ret.datos.val[i]))) =>
    (CargaJson.sale = "return" /\ MismosRegistros(CargaJson.retorno, ret.datos))

\* a collection with a nested record and an object was saved and loads back as
\* the nested record and the object's to_dict
C4_Witness ==
  /\ GuardadoJson
  /\ ret.datos = PyList(<<RegistroAnidado, ObjetoUsuario>>)
  /\ CargaJson.retorno = PyList(<<RegistroAnidado, to_dict(ObjetoUsuario)>>)

Truthy(v) ==
  CASE v.kind = "none" -> FALSE
    [] v.kind = "bool" -> v.val
    [] v.kind = "int" -> v.val # 0
    [] v.kind = "str" -> v.val # ""
    [] v.kind \in {"list", "tuple"} -> Len(v.val) > 0
    [] v.kind = "dict" -> DOMAIN v.val # {}
    [] OTHER -> TRUE

NadaQueGuardar(f) == [fs |-> f, sale |-> "return", retorno |-> PyBool(TRUE)]

\* crear_backup: lectura_falla and open_falla are the collections whose read
\* and whose write meet an I/O error; any exception is caught and makes it
\* return False
crear_backup(f, t, lectura_falla, open_falla) ==
  LET timestamp == strftime(t)
      usuarios_json ==
        json_cargar_datos(f, archivo_usuarios, archivo_usuarios \in lectura_falla).retorno
      gu == IF Truthy(usuarios_json)
              THEN json_guardar_datos(f, t, Append(archivo_usuarios, "_backup_" \o timestamp),
                                      usuarios_json, FALSE, FALSE,
                                      archivo_usuarios \in open_falla)
              ELSE NadaQueGuardar(f)
      tareas_json ==
        json_cargar_datos(gu.fs, archivo_tareas, archivo_tareas \in lectura_falla).retorno
      gt == IF Truthy(tareas_json)
              THEN json_guardar_datos(gu.fs, t, Append(archivo_tareas, "_backup_" \o timestamp),
                                      tareas_json, FALSE, FALSE,
                                      archivo_tareas \in open_falla)
              ELSE NadaQueGuardar(gu.fs)
  IN IF gu.sale # "return" THEN [fs |-> gu.fs, sale |-> "return", retorno |-> PyBool(FALSE)]
     ELSE IF gt.sale # "return" THEN [fs |-> gt.fs, sale |-> "return", retorno |-> PyBool(FALSE)]
     ELSE [fs |-> gt.fs, sale |-> "return",
           retorno |-> PyBool(gu.retorno.val /\ gt.retorno.val)]

CrearBackup ==
  /\ llamadas < MaxLlamadas
  /\ \E lectura_falla \in SUBSET Nombres, open_falla \in SUBSET Nombres :
       LET r == crear_backup(fs, now, lectura_falla, open_falla)
       IN /\ fs' = r.fs
          /\ ret' = [op |-> "crear_backup", sale |-> r.sale, retorno |-> r.retorno,
                     antes |-> fs, at |-> now]
  /\ llamadas' = llamadas + 1
  /\ UNCHANGED <<now, mem>>

EsCrearBackup == ret.op = "crear_backup"

\* the collections a format's live file holds: what a load without I/O error returns
Vivo(f, formato, nombre) ==
  IF formato = "json" THEN json_cargar_datos(f, nombre, FALSE)
  ELSE bin_cargar_datos(f, nombre, FALSE)

\* some format's live file holds a non-empty collection
HayDatos(f, nombre) ==
  \E formato \in Formatos :
     /\ Vivo(f, formato, nombre).sale = "return"
     /\ Vivo(f, formato, nombre).retorno.kind = "list"
     /\ Truthy(Vivo(f, formato, nombre).retorno)

\* a file other than the live ones, in the json or the backups directory,
\* named after the collection and holding a whole JSON document
CopiasEstructuradas(f, nombre) ==
  {r \in {[dir |-> d, archivo |-> n] : d \in {"json"}, n \in DOMAIN f.json}
           \cup {[dir |-> d, archivo |-> n] : d \in {"backups"}, n \in DOMAIN f.backups} :
     /\ r # obtener_ruta_json(nombre)
     /\ r.archivo[1] = nombre[1]
     /\ Leer(f, r).bytes.tipo \notin {"pickle", "vacio", "truncado"}}

\* C11 as claimed: when the full backup returns True, every collection of
\* which some format holds saved data has a structured copy afterwards.
C11_CopiaEstructuradaDeLoGuardado ==
  (EsCrearBackup /\ ret.retorno = PyBool(TRUE)) =>
    \A nombre \in Nombres :
       HayDatos(ret.antes, nombre) => CopiasEstructuradas(fs, nombre) # {}

\* sincronizar_formatos: what the JSON store holds of each collection is saved
\* by the pickle store under the name {collection}_sync; the result of the
\* save is not looked at.  lectura_falla, copia_falla and open_falla are the
\* collections whose read, snapshot copy and write meet an I/O error.
sincronizar_formatos(f, t, lectura_falla, copia_falla, open_falla) ==
  LET usuarios_json ==
        json_cargar_datos(f, archivo_usuarios, archivo_usuarios \in lectura_falla).retorno
      f1 == IF Truthy(usuarios_json)
              THEN bin_guardar_datos(f, t, Append(archivo_usuarios, "_sync"), usuarios_json,
                                     TRUE, archivo_usuarios \in copia_falla,
                                     archivo_usuarios \in open_falla).fs
              ELSE f
      tareas_json ==
        json_cargar_datos(f1, archivo_tareas, archivo_tareas \in lectura_falla).retorno
      f2 == IF Truthy(tareas_json)
              THEN bin_guardar_datos(f1, t, Append(archivo_tareas, "_sync"), tareas_json,
                                     TRUE, archivo_tareas \in copia_falla,
                                     archivo_tareas \in open_falla).fs
              ELSE f1
  IN [fs |-> f2, sale |-> "return", retorno |-> PyBool(TRUE)]

SincronizarFormatos ==
  /\ llamadas < MaxLlamadas
  /\ \E lectura_falla \in SUBSET Nombres, copia_falla \in SUBSET Nombres,
        open_falla \in SUBSET Nombres :
       LET r == sincronizar_formatos(fs, now, lectura_falla, copia_falla, open_falla)
       IN /\ fs' = r.fs
          /\ ret' = [op |-> "sincronizar_formatos", sale |-> r.sale, retorno |-> r.retorno,
                     antes |-> fs, at |-> now]
  /\ llamadas' = llamadas + 1
  /\ UNCHANGED <<now, mem>>

EsSincronizar == ret.op = "sincronizar_formatos"

\* C12 as claimed: after a synchronisation that returns True, loading a
\* collection from the pickle store and from the JSON store gives the same
\* records, for the users and for the tasks.
C12_FormatosIgualesTrasSincronizar ==
  (EsSincronizar /\ ret.retorno = PyBool(TRUE)) =>
    \A nombre \in Nombres :
       /\ Vivo(fs, "binario", nombre).sale = "return"
       /\ Vivo(fs, "binario", nombre).retorno = Vivo(fs, "json", nombre).retorno

(***************************************************************************)
(* Sizes.  os.path.getsize of a file is the length of what the store       *)
(* wrote: the text json.dump produces with indent=2, or the pickle stream  *)
(* (protocol 5) of a value that shares no sub-object.                      *)
(***************************************************************************)
RECURSIVE Suma(_, _)
Suma(f, S) ==
  IF S = {} THEN 0
  ELSE LET x == CHOOSE y \in S : TRUE IN f[x] + Suma(f, S \ {x})

RECURSIVE json_len(_, _)
json_len(d, nivel) ==
  CASE d.tipo = "null" -> 4
    [] d.tipo = "boolean" -> IF d.valor THEN 4 ELSE 5
    [] d.tipo = "number" -> Len(ToString(d.valor))
    [] d.tipo = "string" -> Len(d.valor) + 2
    [] d.tipo = "array" ->
         IF Len(d.valor) = 0 THEN 2
         ELSE 1 + Suma([i \in Indices(d.valor) |->
                          1 + 2 * (nivel + 1) + json_len(d.valor[i], nivel + 1)],
                       Indices(d.valor))
                + (Len(d.valor) - 1) + 1 + 2 * nivel + 1
    [] OTHER ->
         IF DOMAIN d.valor = {} THEN 2
         ELSE 1 + Suma([k \in DOMAIN d.valor |->
                          1 + 2 * (nivel + 1) + Len(k) + 4 + json_len(d.valor[k], nivel + 1)],
                       DOMAIN d.valor)
                + (Cardinality(DOMAIN d.valor) - 1) + 1 + 2 * nivel + 1

RECURSIVE pickle_len(_)
pickle_len(v) ==
  CASE v.kind \in {"none", "bool"} -> 1
    [] v.kind = "int" ->
         IF v.val >= 0 /\ v.val < 256 THEN 2
         ELSE IF v.val >= 0 /\ v.val < 65536 THEN 3 ELSE 5
    [] v.kind = "str" -> (IF Len(v.val) < 256 THEN 2 ELSE 5) + Len(v.val) + 1
    [] v.kind = "list" ->
         2 + Suma([i \in Indices(v.val) |-> pickle_len(v.val[i])], Indices(v.val))
           + (IF Len(v.val) = 0 THEN 0 ELSE IF Len(v.val) = 1 THEN 1 ELSE 2)
    [] v.kind = "tuple" ->
         Suma([i \in Indices(v.val) |-> pickle_len(v.val[i])], Indices(v.val))
           + (IF Len(v.val) = 0 THEN 1 ELSE IF Len(v.val) <= 3 THEN 2 ELSE 3)
    [] v.kind = "dict" ->
         2 + Suma([k \in DOMAIN v.val |-> pickle_len(k) + pickle_len(v.val[k])], DOMAIN v.val)
           + (IF DOMAIN v.val = {} THEN 0
              ELSE IF Cardinality(DOMAIN v.val) = 1 THEN 1 ELSE 2)
    [] v.kind = "datetime" -> 41
    [] OTHER ->
         (* the class (src.models.usuario, Usuario), NEWOBJ, the attributes, BUILD *)
         (2 + Len("src.models.usuario") + 1) + (2 + Len("Usuario") + 1) + 2 + 3
           + pickle_len(PyDict(v.val)) + 1

getsize(archivo) ==
  CASE archivo.bytes.tipo = "vacio" -> 0
    [] archivo.bytes.tipo = "truncado" -> 10
    [] archivo.bytes.tipo = "pickle" ->
         LET cuerpo == pickle_len(archivo.bytes.obj) + 1
         IN 2 + (IF cuerpo >= 4 THEN 9 ELSE 0) + cuerpo
    [] OTHER -> json_len(archivo.bytes, 0)

(***************************************************************************)
(* obtener_estadisticas_almacenamiento.  tamano_total_mb is kept in        *)
(* hundredths of a megabyte, the two decimals round(..., 2) leaves.        *)
(***************************************************************************)
\* mutant: only the files of the two collections are listed
listar_archivos_de_colecciones(f, tipo) ==
  IF tipo = "json"
    THEN {n \in DOMAIN f.json : n \in {Append(c, ".json") : c \in Nombres}}
  ELSE IF tipo = "binario"
    THEN {n \in DOMAIN f.binarios : n \in {Append(c, ".pkl") : c \in Nombres}}
  ELSE {}

listar_archivos(f, tipo) ==
  IF tipo = "json" THEN {n \in DOMAIN f.json : EndsWith(n, ".json")}
  ELSE IF tipo = "binario" THEN {n \in DOMAIN f.binarios : EndsWith(n, ".pkl")}
  ELSE {}

obtener_info_archivo(f, ruta) ==
  IF Existe(f, ruta)
    THEN [existe |-> TRUE, tamano |-> getsize(Leer(f, ruta)),
          fecha_modificacion |-> PyDatetime(Leer(f, ruta).mtime)]
    ELSE [existe |-> FALSE, tamano |-> 0, fecha_modificacion |-> PyNone]

BytesPorMB == 1024 * 1024

\* round(total / (1024 * 1024), 2): the quotient is exact in binary floating
\* point, and round takes the nearest hundredth, the even one on a tie
round_2(total) ==
  LET q == (total * 100) \div BytesPorMB
      r == (total * 100) % BytesPorMB
  IN IF 2 * r > BytesPorMB THEN q + 1
     ELSE IF 2 * r = BytesPorMB THEN q + (q % 2)
     ELSE q

Directorios == <<"json", "binarios", "backups">>

Maximo(S) == CHOOSE x \in S : \A y \in S : y <= x

\* mutant: the sizes of the snapshots are left out of the total
obtener_estadisticas_sin_backups(f) ==
  [archivos_json |-> Cardinality(listar_archivos(f, "json")),
   archivos_binarios |-> Cardinality(listar_archivos(f, "binario")),
   backups_totales |-> Cardinality(DOMAIN f.backups),
   tamano_total_mb |->
     round_2(Suma([d \in {"json", "binarios"} |->
                     Suma([n \in DOMAIN f[d] |-> getsize(f[d][n])], DOMAIN f[d])],
                  {"json", "binarios"})),
   fecha_ultimo_backup |->
     IF DOMAIN f.backups = {} THEN PyNone
     ELSE PyDatetime(Maximo({f.backups[n].mtime : n \in DOMAIN f.backups}))]

obtener_estadisticas_almacenamiento(f) ==
  [archivos_json |-> Cardinality(listar_archivos(f, "json")),
   archivos_binarios |-> Cardinality(listar_archivos(f, "binario")),
   backups_totales |-> Cardinality(DOMAIN f.backups),
   tamano_total_mb |->
     round_2(Suma([d \in RangeOf(Directorios) |->
                     Suma([n \in DOMAIN f[d] |-> getsize(f[d][n])], DOMAIN f[d])],
                  RangeOf(Directorios))),
   fecha_ultimo_backup |->
     IF DOMAIN f.backups = {} THEN PyNone
     ELSE PyDatetime(Maximo({obtener_info_archivo(f, [dir |-> "backups", archivo |-> n])
                               .fecha_modificacion.val : n \in DOMAIN f.backups}))]

ObtenerEstadisticas ==
  /\ ret' = [op |-> "obtener_estadisticas_almacenamiento", sale |-> "return",
             estadisticas |-> obtener_estadisticas_almacenamiento(fs), antes |-> fs,
             at |-> now]
  /\ UNCHANGED <<fs, now, llamadas, mem>>

(***************************************************************************)
(* Maintenance: saves, full backups, synchronisations, prunes and          *)
(* statistics, in any order, from the roots of Init.                       *)
(***************************************************************************)
Ocho == "notas..."
NotaLarga ==
  LET a == Ocho \o Ocho \o Ocho \o Ocho
      b == a \o a \o a \o a
      c == b \o b \o b \o b
      d == c \o c \o c \o c
  IN d \o d \o d \o d

\* a collection whose JSON text and whose pickle stream are above 8 KiB
UsuarioConNotas ==
  PyList(<<PyDict(PyStr("id") :> PyStr("u2") @@ PyStr("notas") :> PyStr(NotaLarga))>>)

DatosMantenimiento == {UnUsuario, UsuarioConNotas, NoSerializable}

NextMantenimiento ==
  \/ \E datos \in DatosMantenimiento, formato \in Formatos : GuardarUsuarios(datos, formato)
  \/ \E datos \in DatosMantenimiento, formato \in Formatos : GuardarTareas(datos, formato)
  \/ CrearBackup
  \/ SincronizarFormatos
  \/ \E dias \in Dias : LimpiarBackupsAntiguos(dias)
  \/ ObtenerEstadisticas
  \/ Tick

SpecMantenimiento == Init /\ [][NextMantenimiento]_vars

EsEstadisticas == ret.op = "obtener_estadisticas_almacenamiento"

\* C13: the statistics count every file of the json directory, every file of
\* the binarios directory and every snapshot of the backups directory, after
\* any sequence of saves, full backups, synchronisations and prunes.
C13_ConteosPorDirectorio ==
  EsEstadisticas =>
    /\ ret.estadisticas.archivos_json = Cardinality(DOMAIN fs.json)
    /\ ret.estadisticas.archivos_binarios = Cardinality(DOMAIN fs.binarios)
    /\ ret.estadisticas.backups_totales = Cardinality(DOMAIN fs.backups)

\* both collections are saved as JSON and each was saved once more, which left
\* one snapshot of each: the statistics report 2 / 0 / 2
C13_Witness ==
  /\ EsEstadisticas
  /\ DOMAIN fs.json = {obtener_ruta_json(c).archivo : c \in Nombres}
  /\ DOMAIN fs.binarios = {}
  /\ {Leer(fs, [dir |-> "backups", archivo |-> n]).bytes.tipo : n \in DOMAIN fs.backups}
       = {"array"}
  /\ ret.estadisticas.archivos_json = 2
  /\ ret.estadisticas.archivos_binarios = 0
  /\ ret.estadisticas.backups_totales = 2

TodosLosArchivos(f) ==
  {[dir |-> d, archivo |-> n] : d \in {"json"}, n \in DOMAIN f.json}
    \cup {[dir |-> d, archivo |-> n] : d \in {"binarios"}, n \in DOMAIN f.binarios}
    \cup {[dir |-> d, archivo |-> n] : d \in {"backups"}, n \in DOMAIN f.backups}

TotalBytes(f) ==
  Suma([r \in TodosLosArchivos(f) |-> getsize(Leer(f, r))], TodosLosArchivos(f))

C15_RaizNuevaSinDatos ==
  (EsCargar /\ fs = RaizNueva) => (ret.sale = "return" /\ ret.retorno = PyNone)

\* the tasks were loaded from the pickle store of a new root
C15_Witness ==
  /\ EsCargar
  /\ fs = RaizNueva
  /\ ret.tienda = "binario"
  /\ ret.nombre = archivo_tareas
  /\ ret.sale = "return"
  /\ ret.retorno = PyNone

(***************************************************************************)
(* GestorArchivos._crear_directorios.  Here the disk is followed from      *)
(* before the first construction: fs has one more field, dirs, the set of  *)
(* the directories that exist ("base" is directorio_base); the files of a  *)
(* directory that does not exist are none.                                 *)
(***************************************************************************)
directorios == <<"base", "json", "binarios", "backups">>

\* os.makedirs(directorio, exist_ok=True) creates the directory and, if it is
\* missing, the base directory above it
makedirs(f, directorio) == [f EXCEPT !.dirs = @ \cup {"base", directorio}]

RECURSIVE CrearDesde(_, _, _)
CrearDesde(f, i, creados) ==
  IF i > Len(directorios) THEN [fs |-> f, sale |-> "return", creados |-> creados]
  ELSE IF directorios[i] \notin f.dirs
    THEN CrearDesde(makedirs(f, directorios[i]), i + 1, Append(creados, directorios[i]))
  ELSE CrearDesde(f, i + 1, creados)

\* mutant: the directories are made without looking whether they exist
_crear_directorios_sin_comprobar(f) ==
  IF \E i \in 1..Len(directorios) : directorios[i] \in f.dirs
    THEN [fs |-> f, sale |-> "FileExistsError", creados |-> << >>]
    ELSE [fs |-> [f EXCEPT !.dirs = RangeOf(directorios)], sale |-> "return",
          creados |-> directorios]

_crear_directorios(f) == CrearDesde(f, 1, << >>)

\* the disks a construction can find: any part of the tree may be missing,
\* and a directory that exists may hold what an earlier session saved
Recortar(D, r) ==
  [dirs |-> D,
   json |-> IF "json" \in D THEN r.json ELSE << >>,
   binarios |-> IF "binarios" \in D THEN r.binarios ELSE << >>,
   backups |-> IF "backups" \in D THEN r.backups ELSE << >>]

Discos ==
  {Recortar(D, r) :
     D \in {{}} \cup {{"base"} \cup S : S \in SUBSET {"json", "binarios", "backups"}},
     r \in Raices}

InitDirectorios ==
  /\ fs \in Discos
  /\ now = Inicio
  /\ ret = [op |-> "disco"]
  /\ llamadas = 0
  /\ mem = SinObjetos

\* GestorArchivos.__init__, run by every construction of a GestorPersistencia
CrearDirectorios ==
  LET r == _crear_directorios(fs)
  IN /\ fs' = r.fs
     /\ ret' = [op |-> "_crear_directorios", sale |-> r.sale, creados |-> r.creados,
                antes |-> fs, at |-> now]
     /\ UNCHANGED <<now, llamadas, mem>>

Construido == ret.op # "disco"

NextDirectorios ==
  \/ CrearDirectorios
  \/ Construido /\ \E datos \in Datos, formato \in Formatos : GuardarUsuarios(datos, formato)
  \/ Construido /\ \E datos \in Datos, formato \in Formatos : GuardarTareas(datos, formato)

SpecDirectorios == InitDirectorios /\ [][NextDirectorios]_vars

EsCrearDirectorios == ret.op = "_crear_directorios"

\* C16: creating the directories raises nothing and leaves the four
\* directories in place and every file as it was; when the four directories
\* exist already, as after a first run, it creates nothing and the disk is
\* the same.
C16_CrearDirectoriosIdempotente ==
  EsCrearDirectorios =>
    /\ ret.sale = "return"
    /\ fs.dirs = RangeOf(directorios)
    /\ \A d \in {"json", "binarios", "backups"} : fs[d] = ret.antes[d]
    /\ ret.antes.dirs = RangeOf(directorios) => (fs = ret.antes /\ ret.creados = << >>)
    /\ _crear_directorios(fs).fs = fs

\* the directories were created again over a tree that holds a file saved
\* after an earlier construction
C16_Witness ==
  /\ EsCrearDirectorios
  /\ ret.antes.dirs = RangeOf(directorios)
  /\ \E n \in DOMAIN ret.antes.json : ret.antes.json[n].mtime >= Inicio
  /\ fs = ret.antes
  /\ ret.creados = << >>

(***************************************************************************)
(* Tasks and predicates (src/src/utils/generadores.py).  A task is a       *)
(* record of the attributes the generators read; a title is the sequence   *)
(* of its characters; estado is the value of its EstadoTarea; fecha_limite *)
(* is a datetime or None.  A predicate is the record of what its closure   *)
(* captured, and Aplicar calls it: it returns a truth value or raises.     *)
(***************************************************************************)
MaxTareas == 3

EstadoTarea == {"pendiente", "en_progreso", "completada"}

Tarea(id, titulo, estado, fecha_limite) ==
  [id |-> id, titulo |-> titulo, estado |-> estado, fecha_limite |-> fecha_limite]

hasattr(o, nombre) == nombre \in DOMAIN o

\* str.lower, str.strip and the in operator of str, over the letters used here
lower(s) ==
  [i \in DOMAIN s |-> IF s[i] = "A" THEN "a" ELSE IF s[i] = "B" THEN "b" ELSE s[i]]

RECURSIVE strip(_)
strip(s) ==
  IF s = << >> THEN s
  ELSE IF Head(s) = " " THEN strip(Tail(s))
  ELSE IF s[Len(s)] = " " THEN strip(SubSeq(s, 1, Len(s) - 1))
  ELSE s

Contiene(parte, s) ==
  \E i \in 0..(Len(s) - Len(parte)) : SubSeq(s, i + 1, i + Len(parte)) = parte

SinFiltro == [tipo |-> "None"]
crear_filtro_titulo_contiene(texto) == [tipo |-> "titulo", texto |-> texto]
crear_filtro_fecha_rango(fecha_inicio, fecha_fin) ==
  [tipo |-> "fecha", fecha_inicio |-> fecha_inicio, fecha_fin |-> fecha_fin]
filtro_estado(estado) == [tipo |-> "estado", estado |-> estado]

\* mutant: the composed filter consults only the first of its filters
filtro_compuesto_solo_primero(filtros) == [tipo |-> "compuesto", filtros |-> IF filtros = << >> THEN filtros ELSE <<Head(filtros)>>]

filtro_compuesto(filtros) == [tipo |-> "compuesto", filtros |-> filtros]

Devuelve(b) == [sale |-> "return", acepta |-> b]
Lanza(e) == [sale |-> e, acepta |-> FALSE]

RECURSIVE Aplicar(_, _)
RECURSIVE all(_, _, _)

\* all(filtro(item) for filtro in filtros): it stops at the first filter that
\* rejects the item, and an exception of a filter passes through
all(filtros, i, item) ==
  IF i > Len(filtros) THEN Devuelve(TRUE)
  ELSE LET r == Aplicar(filtros[i], item)
       IN IF r.sale # "return" THEN r
          ELSE IF ~r.acepta THEN Devuelve(FALSE)
          ELSE all(filtros, i + 1, item)

Aplicar(filtro, item) ==
  CASE filtro.tipo = "titulo" ->
         IF hasattr(item, "titulo")
           THEN Devuelve(Contiene(strip(lower(filtro.texto)), lower(item.titulo)))
           ELSE Devuelve(FALSE)
    [] filtro.tipo = "fecha" ->
         IF hasattr(item, "fecha_limite")
           THEN IF item.fecha_limite.kind # "datetime" THEN Lanza("TypeError")
                ELSE Devuelve(/\ filtro.fecha_inicio <= item.fecha_limite.val
                              /\ item.fecha_limite.val <= filtro.fecha_fin)
           ELSE Devuelve(FALSE)
    [] filtro.tipo = "estado" ->
         Devuelve(hasattr(item, "estado") /\ item.estado = filtro.estado)
    [] filtro.tipo = "compuesto" -> all(filtro.filtros, 1, item)
    [] OTHER -> Devuelve(TRUE)

(***************************************************************************)
(* The task lists the generators are run on.                               *)
(***************************************************************************)
Ab == <<"A", "b">>
BA == <<"B", " ", "A">>

Tareas ==
  { Tarea("t1", Ab, "pendiente", PyDatetime(1)),
    Tarea("t2", BA, "en_progreso", PyDatetime(2)),
    Tarea("t3", Ab, "completada", PyNone),
    Tarea("t4", BA, "completada", PyDatetime(1)) }

RECURSIVE Listas(_)
Listas(n) ==
  IF n = 0 THEN {<< >>}
  ELSE LET L == Listas(n - 1)
       IN L \cup {Append(l, t) : l \in {x \in L : Len(x) = n - 1}, t \in Tareas}

(***************************************************************************)
(* IteradorTareas.  mem.tareas is the caller's list and mem.it the         *)
(* iterator over it: the iterator holds the list itself, not a copy, so    *)
(* what the caller does to the list afterwards is seen by __next__.        *)
(***************************************************************************)
IteradorTareas(filtro) == [filtro |-> filtro, indice |-> 0]

RECURSIVE __next__(_, _)
__next__(it, tareas) ==
  IF it.indice < Len(tareas)
    THEN LET tarea == tareas[it.indice + 1]
             avanzado == [it EXCEPT !.indice = @ + 1]
             r == IF it.filtro = SinFiltro THEN Devuelve(TRUE)
                  ELSE Aplicar(it.filtro, tarea)
         IN IF r.sale # "return"
              THEN [it |-> avanzado, sale |-> r.sale, entrega |-> << >>]
            ELSE IF r.acepta
              THEN [it |-> avanzado, sale |-> "return", entrega |-> <<tarea>>]
            ELSE __next__(avanzado, tareas)
    ELSE [it |-> it, sale |-> "StopIteration", entrega |-> << >>]

FiltrosIterador ==
  { SinFiltro, filtro_estado("pendiente"), filtro_estado("completada"),
    crear_filtro_titulo_contiene(<<"A", "B">>) }

InitIterador ==
  /\ fs = RaizNueva
  /\ now = Inicio
  /\ llamadas = 0
  /\ \E l \in Listas(MaxTareas), f \in FiltrosIterador :
       mem = [tareas |-> l, it |-> IteradorTareas(f)]
  /\ ret = [op |-> "IteradorTareas"]

\* iterador = IteradorTareas(tareas, filtro): a fresh wrap of the same list
Envolver(filtro) ==
  /\ mem' = [mem EXCEPT !.it = IteradorTareas(filtro)]
  /\ ret' = [op |-> "IteradorTareas"]
  /\ UNCHANGED <<fs, now, llamadas>>

\* next(iterador); tras_agotar records that an earlier next(iterador) on this
\* instance raised StopIteration
Siguiente ==
  LET r == __next__(mem.it, mem.tareas)
  IN /\ mem' = [mem EXCEPT !.it = r.it]
     /\ ret' = [op |-> "__next__", sale |-> r.sale, entrega |-> r.entrega,
                tras_agotar |-> /\ ret.op = "__next__"
                                /\ (ret.sale = "StopIteration" \/ ret.tras_agotar)]
     /\ UNCHANGED <<fs, now, llamadas>>

\* tareas.append(t) and tareas.pop() by the caller that owns the list
AppendTarea(t) ==
  /\ Len(mem.tareas) < MaxTareas
  /\ mem' = [mem EXCEPT !.tareas = Append(@, t)]
  /\ UNCHANGED <<fs, now, llamadas, ret>>

PopTarea ==
  /\ mem.tareas # << >>
  /\ mem' = [mem EXCEPT !.tareas = SubSeq(@, 1, Len(@) - 1)]
  /\ UNCHANGED <<fs, now, llamadas, ret>>

NextIterador ==
  \/ \E f \in FiltrosIterador : Envolver(f)
  \/ Siguiente
  \/ \E t \in Tareas : AppendTarea(t)
  \/ PopTarea

SpecIterador == InitIterador /\ [][NextIterador]_vars

EsSiguiente == ret.op = "__next__"

\* C17: once next() on an iterator has raised StopIteration, every later
\* next() on the same iterator raises StopIteration again and yields no task,
\* whatever the caller did to the list in between.
C17_AgotadoSigueAgotado ==
  (EsSiguiente /\ ret.tras_agotar) =>
    (ret.sale = "StopIteration" /\ ret.entrega = << >>)

(***************************************************************************)
(* The generators and the list comprehensions over a fixed task list.      *)
(* A run to the end, list(...), gives the sequence of what was yielded     *)
(* and how the run ended.                                                  *)
(***************************************************************************)
MaxFiltros == 2
MaxLote == 4

Corrida(sale, entrega) == [sale |-> sale, entrega |-> entrega]

RECURSIVE PorEstadoDesde(_, _, _)
PorEstadoDesde(tareas, estado_objetivo, i) ==
  IF i > Len(tareas) THEN << >>
  ELSE LET tarea == tareas[i]
       IN (IF hasattr(tarea, "estado") /\ tarea.estado = estado_objetivo
             THEN <<tarea>> ELSE << >>)
          \o PorEstadoDesde(tareas, estado_objetivo, i + 1)

\* mutant: the generator yields every task, whatever its state
generador_tareas_sin_estado(tareas, estado_objetivo) == Corrida("return", tareas)

generador_tareas_por_estado(tareas, estado_objetivo) ==
  Corrida("return", PorEstadoDesde(tareas, estado_objetivo, 1))

\* list(iterador): next(iterador) until it raises
RECURSIVE list(_, _, _)
list(it, tareas, entrega) ==
  LET r == __next__(it, tareas)
  IN IF r.sale = "return" THEN list(r.it, tareas, entrega \o r.entrega)
     ELSE IF r.sale = "StopIteration" THEN Corrida("return", entrega)
     ELSE Corrida(r.sale, << >>)

\* [tarea for tarea in tareas if filtro(tarea)]
RECURSIVE Filtrar(_, _, _, _)
Filtrar(tareas, filtro, i, entrega) ==
  IF i > Len(tareas) THEN Corrida("return", entrega)
  ELSE LET r == Aplicar(filtro, tareas[i])
       IN IF r.sale # "return" THEN Corrida(r.sale, << >>)
          ELSE Filtrar(tareas, filtro, i + 1,
                       IF r.acepta THEN Append(entrega, tareas[i]) ELSE entrega)

\* completadas / total_tareas * 100 as the exact fraction in lowest terms (the
\* float the code computes is the nearest double to it)
RECURSIVE MCD(_, _)
MCD(a, b) == IF b = 0 THEN a ELSE MCD(b, a % b)

Fraccion(n, d) == [num |-> n \div MCD(n, d), den |-> d \div MCD(n, d)]

Min(a, b) == IF a <= b THEN a ELSE b

Contar(lote, estado) ==
  Len(SelectSeq(lote, LAMBDA t : hasattr(t, "estado") /\ t.estado = estado))

Estadisticas(tareas, tamano_lote, i, lote) ==
  LET total_tareas == Len(lote)
      completadas == Contar(lote, "completada")
  IN [lote_numero |-> (i \div tamano_lote) + 1,
      rango_indices |-> <<i, Min(i + tamano_lote - 1, Len(tareas) - 1)>>,
      total_tareas |-> total_tareas,
      pendientes |-> Contar(lote, "pendiente"),
      en_progreso |-> Contar(lote, "en_progreso"),
      completadas |-> completadas,
      porcentaje_completadas |->
        IF total_tareas > 0 THEN Fraccion(completadas * 100, total_tareas)
        ELSE Fraccion(0, 1)]

\* for i in range(0, len(tareas), tamano_lote) with a positive step
RECURSIVE LotesDesde(_, _, _)
LotesDesde(tareas, tamano_lote, i) ==
  IF i >= Len(tareas) THEN << >>
  ELSE LET lote == SubSeq(tareas, i + 1, Min(i + tamano_lote, Len(tareas)))
       IN <<Estadisticas(tareas, tamano_lote, i, lote)>>
          \o LotesDesde(tareas, tamano_lote, i + tamano_lote)

\* mutant: every window is counted from the start of the list
RECURSIVE LotesAcumulados(_, _, _)
LotesAcumulados(tareas, tamano_lote, i) ==
  IF i >= Len(tareas) THEN << >>
  ELSE LET lote == SubSeq(tareas, 1, Min(i + tamano_lote, Len(tareas)))
       IN <<Estadisticas(tareas, tamano_lote, i, lote)>>
          \o LotesAcumulados(tareas, tamano_lote, i + tamano_lote)

generador_estadisticas_acumuladas(tareas, tamano_lote) ==
  IF tamano_lote = 0 THEN Corrida("ValueError", << >>)
  ELSE IF tamano_lote < 0 THEN Corrida("return", << >>)
  ELSE Corrida("return", LotesAcumulados(tareas, tamano_lote, 0))

\* range() raises ValueError for a step of zero and is empty for a negative
\* step from 0 up to len(tareas)
generador_estadisticas_por_lote(tareas, tamano_lote) ==
  IF tamano_lote = 0 THEN Corrida("ValueError", << >>)
  ELSE IF tamano_lote < 0 THEN Corrida("return", << >>)
  ELSE Corrida("return", LotesDesde(tareas, tamano_lote, 0))

Estados == EstadoTarea \cup {"cancelada"}

Filtros ==
  { crear_filtro_titulo_contiene(<<"A", "B">>), crear_filtro_titulo_contiene(<<" ", "B", " ", "A", " ">>),
    filtro_estado("pendiente"), filtro_estado("completada"),
    crear_filtro_fecha_rango(1, 1), crear_filtro_fecha_rango(1, 2) }

RECURSIVE Combinaciones(_)
Combinaciones(n) ==
  IF n = 0 THEN {<< >>}
  ELSE LET C == Combinaciones(n - 1)
       IN C \cup {Append(c, f) : c \in {x \in C : Len(x) = n - 1}, f \in Filtros}

InitGeneradores ==
  /\ fs = RaizNueva
  /\ now = Inicio
  /\ llamadas = 0
  /\ \E l \in Listas(MaxTareas) : mem = [tareas |-> l]
  /\ ret = [op |-> "tareas"]

\* list(generador_tareas_por_estado(tareas, estado))
GeneradorTareasPorEstado(estado) ==
  LET r == generador_tareas_por_estado(mem.tareas, estado)
  IN /\ ret' = [op |-> "generador_tareas_por_estado", estado |-> estado,
                sale |-> r.sale, entrega |-> r.entrega]
     /\ UNCHANGED <<fs, now, llamadas, mem>>

\* list(IteradorTareas(tareas, lambda t: t.estado.value == estado))
IteradorPorEstado(estado) ==
  LET r == list(IteradorTareas(filtro_estado(estado)), mem.tareas, << >>)
  IN /\ ret' = [op |-> "list(IteradorTareas)", estado |-> estado,
                sale |-> r.sale, entrega |-> r.entrega]
     /\ UNCHANGED <<fs, now, llamadas, mem>>

\* [t for t in tareas if filtro_compuesto(*filtros)(t)]
FiltroCompuesto(filtros) ==
  LET r == Filtrar(mem.tareas, filtro_compuesto(filtros), 1, << >>)
  IN /\ ret' = [op |-> "filtro_compuesto", filtros |-> filtros,
                sale |-> r.sale, entrega |-> r.entrega]
     /\ UNCHANGED <<fs, now, llamadas, mem>>

EsPorEstado == ret.op \in {"generador_tareas_por_estado", "list(IteradorTareas)"}

ConEstado(tareas, estado) == SelectSeq(tareas, LAMBDA t : t.estado = estado)

\* list(generador_estadisticas_por_lote(tareas, tamano_lote))
GeneradorEstadisticasPorLote(tamano_lote) ==
  LET r == generador_estadisticas_por_lote(mem.tareas, tamano_lote)
  IN /\ ret' = [op |-> "generador_estadisticas_por_lote", tamano_lote |-> tamano_lote,
                sale |-> r.sale, entrega |-> r.entrega]
     /\ UNCHANGED <<fs, now, llamadas, mem>>

NextGeneradores ==
  \/ \E e \in Estados : GeneradorTareasPorEstado(e)
  \/ \E e \in Estados : IteradorPorEstado(e)
  \/ \E c \in Combinaciones(MaxFiltros) : FiltroCompuesto(c)
  \/ \E s \in (-1)..MaxLote : GeneradorEstadisticasPorLote(s)

SpecGeneradores == InitGeneradores /\ [][NextGeneradores]_vars

\* C18: the by-state generator, and the iterator given the predicate on the
\* same state, yield exactly the tasks of the list whose state is the
\* requested one, each once and in list order; nothing when no task has that
\* state or the list is empty.
C18_TareasDelEstadoEnOrden ==
  EsPorEstado =>
    /\ ret.sale = "return"
    /\ ret.entrega = ConEstado(mem.tareas, ret.estado)
    /\ (\A i \in DOMAIN mem.tareas : mem.tareas[i].estado # ret.estado)
         => ret.entrega = << >>

C18_Witness ==
  /\ ret.op = "generador_tareas_por_estado"
  /\ Len(mem.tareas) = 3
  /\ mem.tareas[2].estado # ret.estado
  /\ ret.entrega = <<mem.tareas[1], mem.tareas[3]>>
  /\ mem.tareas[1] # mem.tareas[3]

EsCompuesto == ret.op = "filtro_compuesto"

Solo(filtro) == Filtrar(mem.tareas, filtro, 1, << >>)

Esta(t, lista) == \E i \in DOMAIN lista : lista[i] = t

Reverso(s) == [i \in DOMAIN s |-> s[Len(s) + 1 - i]]

\* every filter of the composition returns a truth value for every task
Totales(filtros) == \A i \in DOMAIN filtros : Solo(filtros[i]).sale = "return"

EsPorLote == ret.op = "generador_estadisticas_por_lote"

\* the tasks of the list at the 0-based positions desde..hasta with that state
DelEstado(desde, hasta, estado) ==
  Cardinality({j \in (desde + 1)..(hasta + 1) : mem.tareas[j].estado = estado})

\* C20: for N tasks and a window size s >= 1 the generator yields ceil(N/s)
\* windows numbered 1, 2, ...; their index ranges are contiguous, disjoint
\* and cover 0..N-1; every window but the last has s tasks; the totals sum
\* to N; in each window pending + in progress + done is the total; and the
\* percentage done is 100 * done / total of that window alone.
C20_LotesCubrenLaLista ==
  (EsPorLote /\ ret.tamano_lote >= 1) =>
    LET N == Len(mem.tareas)
        s == ret.tamano_lote
        W == ret.entrega
    IN /\ ret.sale = "return"
       /\ Len(W) = (N + s - 1) \div s
       /\ \A k \in DOMAIN W :
            LET desde == W[k].rango_indices[1]
                hasta == W[k].rango_indices[2]
            IN /\ W[k].lote_numero = k
               /\ desde = (IF k = 1 THEN 0 ELSE W[k - 1].rango_indices[2] + 1)
               /\ desde <= hasta
               /\ (k = Len(W)) => hasta = N - 1
               /\ W[k].total_tareas = hasta - desde + 1
               /\ (k < Len(W)) => W[k].total_tareas = s
               /\ W[k].pendientes = DelEstado(desde, hasta, "pendiente")
               /\ W[k].en_progreso = DelEstado(desde, hasta, "en_progreso")
               /\ W[k].completadas = DelEstado(desde, hasta, "completada")
               /\ W[k].pendientes + W[k].en_progreso + W[k].completadas
                    = W[k].total_tareas
               /\ W[k].porcentaje_completadas.num * W[k].total_tareas
                    = W[k].porcentaje_completadas.den * 100 * W[k].completadas
       /\ Suma([k \in DOMAIN W |-> W[k].total_tareas], DOMAIN W) = N

C20_Witness ==
  /\ EsPorLote
  /\ ret.tamano_lote = 2
  /\ Len(mem.tareas) = 3
  /\ Len(ret.entrega) = 2
  /\ ret.entrega[1].completadas = 1
  /\ ret.entrega[2].completadas = 0
  /\ ret.entrega[1].porcentaje_completadas = [num |-> 50, den |-> 1]
  /\ ret.entrega[2].porcentaje_completadas = [num |-> 0, den |-> 1]

(***************************************************************************)
(* GeneradorInfinito (src/src/utils/generadores.py).  mem.gens are two     *)
(* instances and mem.ids the ids the caller has taken from each of them.   *)
(***************************************************************************)
MaxContador == 11

Prefijos == {"ID", "TEST", "ID_0"}

\* format(n, "06d"): the decimal digits of n, with zeros in front up to six
RECURSIVE Rellenar(_, _)
Rellenar(digitos, ancho) ==
  IF Len(digitos) >= ancho THEN digitos ELSE Rellenar("0" \o digitos, ancho)

format_06d(n) == Rellenar(ToString(n), 6)

GeneradorInfinito(prefijo) == [prefijo |-> prefijo, contador |-> 0]

\* mutant: the id is built from the next number but the counter is left as it was
GeneradorInfinito__next__sin_avanzar(gen) == [gen |-> gen, sale |-> "return", id |-> gen.prefijo \o "_" \o format_06d(gen.contador + 1)]

GeneradorInfinito__next__(gen) ==
  LET contador == gen.contador + 1
  IN [gen |-> [gen EXCEPT !.contador = contador], sale |-> "return",
      id |-> gen.prefijo \o "_" \o format_06d(contador)]

InitContador ==
  /\ fs = RaizNueva
  /\ now = Inicio
  /\ llamadas = 0
  /\ \E p \in Prefijos, q \in Prefijos :
       mem = [gens |-> <<GeneradorInfinito(p), GeneradorInfinito(q)>>,
              ids |-> << << >>, << >> >>]
  /\ ret = [op |-> "GeneradorInfinito"]

\* gen = GeneradorInfinito(prefijo)
NuevoGenerador(i, prefijo) ==
  /\ mem' = [mem EXCEPT !.gens[i] = GeneradorInfinito(prefijo), !.ids[i] = << >>]
  /\ ret' = [op |-> "GeneradorInfinito"]
  /\ UNCHANGED <<fs, now, llamadas>>

\* ids.append(next(gen))
SiguienteId(i) ==
  /\ mem.gens[i].contador < MaxContador
  /\ LET r == GeneradorInfinito__next__(mem.gens[i])
     IN /\ mem' = [mem EXCEPT !.gens[i] = r.gen, !.ids[i] = Append(@, r.id)]
        /\ ret' = [op |-> "GeneradorInfinito.__next__", gen |-> i, sale |-> r.sale,
                   id |-> r.id, antes |-> mem.gens[i].contador]
  /\ UNCHANGED <<fs, now, llamadas>>

NextContador ==
  \/ \E i \in {1, 2}, p \in Prefijos : NuevoGenerador(i, p)
  \/ \E i \in {1, 2} : SiguienteId(i)

SpecContador == InitContador /\ [][NextContador]_vars

EsSiguienteId == ret.op = "GeneradorInfinito.__next__"

\* k written with at least six digits
SeisDigitos(k) ==
  IF k < 10 THEN "00000" \o ToString(k)
  ELSE IF k < 100 THEN "0000" \o ToString(k)
  ELSE IF k < 1000 THEN "000" \o ToString(k)
  ELSE IF k < 10000 THEN "00" \o ToString(k)
  ELSE IF k < 100000 THEN "0" \o ToString(k)
  ELSE ToString(k)

\* C22: the k-th next() of a GeneradorInfinito with prefix P returns P, "_"
\* and k with zeros in front up to six digits; the counter grows by exactly
\* one per call, so the ids taken from one instance are pairwise distinct and
\* in the order of their numbers; next() never raises.
C22_IdsConsecutivos ==
  /\ EsSiguienteId =>
       /\ ret.sale = "return"
       /\ mem.gens[ret.gen].contador = ret.antes + 1
       /\ ret.id = mem.gens[ret.gen].prefijo \o "_" \o SeisDigitos(ret.antes + 1)
  /\ \A i \in {1, 2} :
       /\ Len(mem.ids[i]) = mem.gens[i].contador
       /\ \A k \in DOMAIN mem.ids[i] :
            mem.ids[i][k] = mem.gens[i].prefijo \o "_" \o SeisDigitos(k)
       /\ \A k \in DOMAIN mem.ids[i], j \in DOMAIN mem.ids[i] :
            k # j => mem.ids[i][k] # mem.ids[i][j]

C22_Witness ==
  /\ EsSiguienteId
  /\ ret.id = "TEST_000010"
  /\ Len(mem.ids[ret.gen]) = 10

(***************************************************************************)
(* Due dates.  A datetime is its number of ticks since the first instant   *)
(* of AnioEpoca; date() is its calendar date.                              *)
(***************************************************************************)
AnioEpoca == 2025

Bisiesto(a) == (a % 4 = 0 /\ a % 100 # 0) \/ a % 400 = 0

DiasDelMes(a, m) ==
  IF m = 2 THEN (IF Bisiesto(a) THEN 29 ELSE 28)
  ELSE IF m \in {4, 6, 9, 11} THEN 30 ELSE 31

\* the date that lies d days after the first day of month m of year a
RECURSIVE FechaDesde(_, _, _)
FechaDesde(a, m, d) ==
  IF d < DiasDelMes(a, m) THEN [year |-> a, month |-> m, day |-> d + 1]
  ELSE IF m = 12 THEN FechaDesde(a + 1, 1, d - DiasDelMes(a, m))
  ELSE FechaDesde(a, m + 1, d - DiasDelMes(a, m))

date(fecha) == FechaDesde(AnioEpoca, 1, fecha.val \div TicksPerDay)

\* the datetime of day d (1-based within the year AnioEpoca + anios) plus ticks
Instante(anios, d, ticks) ==
  PyDatetime((anios * 365 + d - 1) * TicksPerDay + ticks)

MedioDia == TicksPerDay \div 2

EsFecha(v) == v.kind = "datetime"

\* Tarea.esta_vencida and Tarea.calcular_dias_restantes with the clock at t:
\* both subtract or compare datetime.now() and self.fecha_limite, which raises
\* TypeError when fecha_limite is None
esta_vencida(tarea, t) ==
  IF EsFecha(tarea.fecha_limite) THEN Devuelve(t > tarea.fecha_limite.val)
  ELSE Lanza("TypeError")

\* timedelta.days: whole days, rounded towards minus infinity
calcular_dias_restantes(tarea, t) ==
  IF EsFecha(tarea.fecha_limite)
    THEN [sale |-> "return", dias |-> (tarea.fecha_limite.val - t) \div TicksPerDay]
    ELSE [sale |-> "TypeError", dias |-> 0]

RECURSIVE VencidasDesde(_, _, _, _)
VencidasDesde(tareas, t, i, entrega) ==
  IF i > Len(tareas) THEN Corrida("return", entrega)
  ELSE LET r == IF hasattr(tareas[i], "fecha_limite") THEN esta_vencida(tareas[i], t)
                ELSE Devuelve(FALSE)
       IN IF r.sale # "return" THEN Corrida(r.sale, << >>)
          ELSE VencidasDesde(tareas, t, i + 1,
                             IF r.acepta THEN Append(entrega, tareas[i]) ELSE entrega)

generador_tareas_vencidas(tareas, t) == VencidasDesde(tareas, t, 1, << >>)

RECURSIVE ProximasDesde(_, _, _, _, _)
ProximasDesde(tareas, dias, t, i, entrega) ==
  IF i > Len(tareas) THEN Corrida("return", entrega)
  ELSE LET r == calcular_dias_restantes(tareas[i], t)
       IN IF r.sale # "return" THEN Corrida(r.sale, << >>)
          ELSE ProximasDesde(tareas, dias, t, i + 1,
                             IF 0 <= r.dias /\ r.dias <= dias
                               THEN Append(entrega, tareas[i]) ELSE entrega)

\* mutant: the window is measured in ticks, not in whole days
generador_tareas_proximas_exactas(tareas, dias, t) == IF \E i \in DOMAIN tareas : ~EsFecha(tareas[i].fecha_limite) THEN Corrida("TypeError", << >>) ELSE Corrida("return", SelectSeq(tareas, LAMBDA x : t <= x.fecha_limite.val /\ x.fecha_limite.val <= t + dias * TicksPerDay))

generador_tareas_proximas_vencer(tareas, dias, t) ==
  ProximasDesde(tareas, dias, t, 1, << >>)

\* the first loop of the calendar generator: fecha.year raises AttributeError
\* when fecha_limite is None
RECURSIVE TareasDelMes(_, _, _, _, _)
TareasDelMes(tareas, anio, mes, i, tareas_del_mes) ==
  IF i > Len(tareas) THEN Corrida("return", tareas_del_mes)
  ELSE LET tarea == tareas[i] IN
       IF ~hasattr(tarea, "fecha_limite")
         THEN TareasDelMes(tareas, anio, mes, i + 1, tareas_del_mes)
       ELSE IF ~EsFecha(tarea.fecha_limite) THEN Corrida("AttributeError", << >>)
       ELSE LET fecha == date(tarea.fecha_limite)
            IN TareasDelMes(tareas, anio, mes, i + 1,
                 IF fecha.year = anio /\ fecha.month = mes
                   THEN Append(tareas_del_mes, tarea) ELSE tareas_del_mes)

\* the second loop: tareas_por_dia maps a day to the list of its tasks
RECURSIVE AgruparPorDia(_, _, _)
AgruparPorDia(tareas_del_mes, i, tareas_por_dia) ==
  IF i > Len(tareas_del_mes) THEN tareas_por_dia
  ELSE LET tarea == tareas_del_mes[i]
           dia == date(tarea.fecha_limite).day
       IN AgruparPorDia(tareas_del_mes, i + 1,
            IF dia \in DOMAIN tareas_por_dia
              THEN [tareas_por_dia EXCEPT ![dia] = Append(@, tarea)]
              ELSE (dia :> <<tarea>>) @@ tareas_por_dia)

\* the third loop: for dia in sorted(tareas_por_dia.keys())
RECURSIVE EntradasDelCalendario(_, _, _, _)
EntradasDelCalendario(tareas_por_dia, anio, mes, pendientes) ==
  IF pendientes = {} THEN << >>
  ELSE LET dia == CHOOSE d \in pendientes : \A e \in pendientes : d <= e
           tareas_dia == tareas_por_dia[dia]
       IN <<[fecha |-> [year |-> anio, month |-> mes, day |-> dia],
             dia |-> dia,
             tareas |-> tareas_dia,
             total_tareas |-> Len(tareas_dia),
             resumen |-> ToString(Len(tareas_dia)) \o " tarea"
                           \o (IF Len(tareas_dia) # 1 THEN "s" ELSE "")]>>
          \o EntradasDelCalendario(tareas_por_dia, anio, mes, pendientes \ {dia})

generador_fechas_limite_calendario(tareas, anio, mes) ==
  LET del_mes == TareasDelMes(tareas, anio, mes, 1, << >>)
  IN IF del_mes.sale # "return" THEN del_mes
     ELSE LET tareas_por_dia == AgruparPorDia(del_mes.entrega, 1, << >>)
          IN Corrida("return",
                     EntradasDelCalendario(tareas_por_dia, anio, mes, DOMAIN tareas_por_dia))

(***************************************************************************)
(* The date queries over a fixed task list with the clock standing still.  *)
(***************************************************************************)
MaxVentana == 1

Diciembre == 335

TareasConFecha ==
  { Tarea("t1", Ab, "pendiente", Instante(0, Diciembre - 1, 0)),
    Tarea("t2", BA, "pendiente", Instante(0, Diciembre, MedioDia)),
    Tarea("t3", Ab, "en_progreso", Instante(0, Diciembre + 1, 0)),
    Tarea("t4", BA, "completada", Instante(0, Diciembre + 1, MedioDia)),
    Tarea("t5", Ab, "pendiente", Instante(1, Diciembre, 0)),
    Tarea("t6", BA, "pendiente", PyNone) }

RECURSIVE ListasDe(_, _)
ListasDe(U, n) ==
  IF n = 0 THEN {<< >>}
  ELSE LET L == ListasDe(U, n - 1)
       IN L \cup {Append(l, t) : l \in {x \in L : Len(x) = n - 1}, t \in U}

Relojes == {Instante(0, Diciembre, 0).val, Instante(0, Diciembre, MedioDia).val}

Meses == {<<AnioEpoca, 11>>, <<AnioEpoca, 12>>, <<AnioEpoca + 1, 12>>}

InitFechas ==
  /\ fs = RaizNueva
  /\ now \in Relojes
  /\ llamadas = 0
  /\ \E l \in ListasDe(TareasConFecha, MaxTareas) : mem = [tareas |-> l]
  /\ ret = [op |-> "tareas"]

\* list(generador_fechas_limite_calendario(tareas, anio, mes))
GeneradorFechasLimiteCalendario(anio, mes) ==
  LET r == generador_fechas_limite_calendario(mem.tareas, anio, mes)
  IN /\ ret' = [op |-> "generador_fechas_limite_calendario", anio |-> anio, mes |-> mes,
                sale |-> r.sale, entrega |-> r.entrega]
     /\ UNCHANGED <<fs, now, llamadas, mem>>

\* list(generador_tareas_vencidas(tareas))
GeneradorTareasVencidas ==
  LET r == generador_tareas_vencidas(mem.tareas, now)
  IN /\ ret' = [op |-> "generador_tareas_vencidas", sale |-> r.sale, entrega |-> r.entrega]
     /\ UNCHANGED <<fs, now, llamadas, mem>>

\* list(generador_tareas_proximas_vencer(tareas, dias))
GeneradorTareasProximasVencer(dias) ==
  LET r == generador_tareas_proximas_vencer(mem.tareas, dias, now)
  IN /\ ret' = [op |-> "generador_tareas_proximas_vencer", dias |-> dias,
                sale |-> r.sale, entrega |-> r.entrega]
     /\ UNCHANGED <<fs, now, llamadas, mem>>

\* [t for t in tareas if crear_filtro_fecha_rango(now, now + dias)(t)]
FiltroFechaRango(dias) ==
  LET r == Filtrar(mem.tareas, crear_filtro_fecha_rango(now, now + dias * TicksPerDay),
                   1, << >>)
  IN /\ ret' = [op |-> "crear_filtro_fecha_rango", dias |-> dias,
                sale |-> r.sale, entrega |-> r.entrega]
     /\ UNCHANGED <<fs, now, llamadas, mem>>

NextFechas ==
  \/ \E am \in Meses : GeneradorFechasLimiteCalendario(am[1], am[2])
  \/ GeneradorTareasVencidas
  \/ \E d \in 0..MaxVentana : GeneradorTareasProximasVencer(d)
  \/ \E d \in 0..MaxVentana : FiltroFechaRango(d)

SpecFechas == InitFechas /\ [][NextFechas]_vars

EsCalendario == ret.op = "generador_fechas_limite_calendario"

Vence(t, anio, mes) ==
  /\ EsFecha(t.fecha_limite)
  /\ date(t.fecha_limite).year = anio
  /\ date(t.fecha_limite).month = mes

DelDia(anio, mes, dia) ==
  SelectSeq(mem.tareas, LAMBDA t : Vence(t, anio, mes) /\ date(t.fecha_limite).day = dia)

CalendarioCorrecto ==
  LET E == ret.entrega
  IN /\ ret.sale = "return"
     /\ \A d \in 1..31 :
          Cardinality({k \in DOMAIN E : E[k].dia = d})
            = (IF DelDia(ret.anio, ret.mes, d) # << >> THEN 1 ELSE 0)
     /\ \A k \in DOMAIN E :
          /\ E[k].dia \in 1..31
          /\ k > 1 => E[k - 1].dia < E[k].dia
          /\ E[k].tareas = DelDia(ret.anio, ret.mes, E[k].dia)
          /\ E[k].total_tareas = Len(E[k].tareas)
     /\ Suma([k \in DOMAIN E |-> E[k].total_tareas], DOMAIN E)
          = Len(SelectSeq(mem.tareas, LAMBDA t : Vence(t, ret.anio, ret.mes)))

TodasConFecha == \A i \in DOMAIN mem.tareas : EsFecha(mem.tareas[i].fecha_limite)

\* C21: for a year and a month the calendar generator yields exactly one
\* entry for each day of the month on which a task of the list is due and
\* none for another day, in ascending day order; each entry lists the tasks
\* due that day in list order, and the totals sum to the number of tasks due
\* in the month.
C21_UnaEntradaPorDiaConTareas == EsCalendario => CalendarioCorrecto

\* C21 holds for the lists in which every task has a due date
C21_CalendarioDeTareasConFecha == (EsCalendario /\ TodasConFecha) => CalendarioCorrecto

EsProximas == ret.op = "generador_tareas_proximas_vencer"

Limite(t) == t.fecha_limite.val

\* C28 as stated: with the clock at now and a window of d >= 0 days the
\* due-within generator yields, in list order, exactly the tasks with
\* now <= due <= now + d days, none of which is overdue.
C28_ProximasDentroDeLaVentana ==
  (EsProximas /\ TodasConFecha) =>
    /\ ret.sale = "return"
    /\ ret.entrega = SelectSeq(mem.tareas, LAMBDA t :
                       now <= Limite(t) /\ Limite(t) <= now + ret.dias * TicksPerDay)

\* C28: the generator counts whole days remaining, so with the clock at now
\* and a window of d >= 0 days it yields, in list order, exactly the tasks
\* with now <= due < now + (d + 1) days; none of them is overdue (now > due),
\* so no task is yielded by both the overdue and the due-within generator.
\* If a task of the list has no due date the run raises TypeError.
C28_ProximasPorDiasEnteros ==
  EsProximas =>
    IF TodasConFecha
      THEN /\ ret.sale = "return"
           /\ ret.entrega = SelectSeq(mem.tareas, LAMBDA t :
                              /\ now <= Limite(t)
                              /\ Limite(t) < now + (ret.dias + 1) * TicksPerDay)
           /\ \A k \in DOMAIN ret.entrega :
                ~Esta(ret.entrega[k], generador_tareas_vencidas(mem.tareas, now).entrega)
      ELSE ret.sale = "TypeError" /\ ret.entrega = << >>

C28_Witness ==
  /\ EsProximas
  /\ TodasConFecha
  /\ Len(mem.tareas) = 3
  /\ Len(ret.entrega) = 1
  /\ Limite(ret.entrega[1]) > now + ret.dias * TicksPerDay
  /\ \E i \in DOMAIN mem.tareas : now > Limite(mem.tareas[i])

EsConsulta ==
  ret.op \in {"generador_fechas_limite_calendario", "generador_tareas_vencidas",
              "generador_tareas_proximas_vencer", "crear_filtro_fecha_rango"}

\* C29: the overdue, due-within and calendar generators and the date-range
\* predicate complete without raising on every list of tasks, also when a
\* task has no due date, and they do not select such a task.
C29_ConsultasTotales ==
  EsConsulta =>
    /\ ret.sale = "return"
    /\ ret.op # "generador_fechas_limite_calendario" =>
         \A k \in DOMAIN ret.entrega : EsFecha(ret.entrega[k].fecha_limite)

(***************************************************************************)
(* GestorSistema: the users and tasks of one process.  A text is the       *)
(* sequence of its characters; an id is the text uuid4 returns, drawn from *)
(* a counter that never repeats.                                           *)
(***************************************************************************)
MaxOperaciones == 4

upper(s) ==
  [i \in DOMAIN s |-> IF s[i] = "a" THEN "A" ELSE IF s[i] = "b" THEN "B" ELSE s[i]]

EsLetra(c) == c \in {"a", "A", "b", "B"}

\* str.title: a letter is upper case after a non-letter, lower case after a letter
title(s) ==
  [i \in DOMAIN s |->
     IF i = 1 \/ ~EsLetra(s[i - 1]) THEN upper(<<s[i]>>)[1] ELSE lower(<<s[i]>>)[1]]

\* str.isalnum: non-empty and every character a letter or a digit
isalnum(s) == s # << >> /\ \A i \in DOMAIN s : EsLetra(s[i])

replace(s, c) == SelectSeq(s, LAMBDA x : x # c)

Veces(c, s) == Cardinality({i \in DOMAIN s : s[i] = c})
Posicion(c, s) == CHOOSE i \in DOMAIN s : s[i] = c /\ \A j \in 1..(i - 1) : s[j] # c

\* the characters of a text joined into the string json.dump writes
RECURSIVE Texto(_)
Texto(s) == IF s = << >> THEN "" ELSE Head(s) \o Texto(Tail(s))

validar_y_formatear_email(email) ==
  LET email_limpio == lower(strip(email))
      usuario == SubSeq(email_limpio, 1, Posicion("@", email_limpio) - 1)
      dominio == SubSeq(email_limpio, Posicion("@", email_limpio) + 1, Len(email_limpio))
  IN IF email = << >> THEN [valido |-> FALSE, email |-> << >>]
     ELSE IF Veces("@", email_limpio) # 1 THEN [valido |-> FALSE, email |-> email_limpio]
     ELSE IF usuario = << >> \/ dominio = << >> THEN [valido |-> FALSE, email |-> email_limpio]
     ELSE IF Veces(".", dominio) = 0 THEN [valido |-> FALSE, email |-> email_limpio]
     ELSE IF ~isalnum(replace(replace(replace(usuario, "."), "_"), "-"))
       THEN [valido |-> FALSE, email |-> email_limpio]
     ELSE [valido |-> TRUE, email |-> email_limpio]

validar_email(email) == validar_y_formatear_email(email).valido

\* Usuario(nombre, email): the object, or the ValueError of its validation
Usuario(id, nombre, email, t) ==
  IF strip(nombre) = << >> THEN [sale |-> "ValueError"]
  ELSE IF strip(email) = << >> \/ Veces("@", email) = 0 THEN [sale |-> "ValueError"]
  ELSE [sale |-> "return",
        usuario |-> [id |-> id, nombre |-> title(strip(nombre)), email |-> lower(strip(email)),
                     fecha_registro |-> t, tareas_asignadas |-> << >>]]

\* the attributes of self when __init__ starts
ObjetoNuevo == << >>

\* Tarea(titulo, fecha_limite, usuario_id) as GestorSistema and from_dict build
\* it: no attribute _cargando_desde_archivo exists on the new object, so a due
\* date that is not in the future raises for every caller
Tarea__init__(id, titulo, fecha_limite, usuario_id, t) ==
  IF strip(titulo) = << >> THEN [sale |-> "ValueError"]
  ELSE IF fecha_limite # PyNone /\ fecha_limite.val <= t
            /\ ~hasattr(ObjetoNuevo, "_cargando_desde_archivo")
    THEN [sale |-> "ValueError"]
  ELSE [sale |-> "return",
        tarea |-> [id |-> id, titulo |-> title(strip(titulo)), estado |-> "pendiente",
                   fecha_limite |-> fecha_limite, usuario_id |-> usuario_id,
                   fecha_creacion |-> t]]

uuid4(n) == ToString(n)

\* the first of the positions S of a list
Primero(S) == CHOOSE i \in S : \A j \in S : i <= j
Quitar(s, i) == SubSeq(s, 1, i - 1) \o SubSeq(s, i + 1, Len(s))
\* list.remove(x): the first element equal to x is taken out
remove(s, x) ==
  IF \E i \in DOMAIN s : s[i] = x THEN Quitar(s, Primero({i \in DOMAIN s : s[i] = x})) ELSE s

\* the index of the user or task a lookup returns, 0 for None
obtener_usuario_por_email(usuarios, email) ==
  LET email_lower == strip(lower(email))
  IN IF \E i \in DOMAIN usuarios : usuarios[i].email = email_lower
       THEN Primero({i \in DOMAIN usuarios : usuarios[i].email = email_lower}) ELSE 0

obtener_usuario_por_id(usuarios, usuario_id) ==
  IF \E i \in DOMAIN usuarios : usuarios[i].id = usuario_id
    THEN Primero({i \in DOMAIN usuarios : usuarios[i].id = usuario_id}) ELSE 0

obtener_tarea_por_id(tareas, tarea_id) ==
  IF \E i \in DOMAIN tareas : tareas[i].id = tarea_id
    THEN Primero({i \in DOMAIN tareas : tareas[i].id = tarea_id}) ELSE 0

\* every operation maps the objects in memory m to the objects it leaves and
\* what it returns; retorno is the id of the object returned, or None
crear_usuario(m, nombre, email, t) ==
  LET nuevo == Usuario(uuid4(m.uuid), strip(nombre), strip(lower(email)), t)
  IN IF strip(nombre) = << >> THEN [sale |-> "return", retorno |-> PyNone, mem |-> m]
     ELSE IF ~validar_email(email) THEN [sale |-> "return", retorno |-> PyNone, mem |-> m]
     ELSE IF \E i \in DOMAIN m.usuarios : lower(m.usuarios[i].email) = lower(email)
       THEN [sale |-> "return", retorno |-> PyNone, mem |-> m]
     ELSE IF nuevo.sale # "return" THEN [sale |-> "return", retorno |-> PyNone, mem |-> m]
     ELSE [sale |-> "return", retorno |-> PyStr(nuevo.usuario.id),
           mem |-> [m EXCEPT !.usuarios = Append(@, nuevo.usuario), !.uuid = @ + 1]]


crear_tarea(m, titulo, fecha_limite, usuario_email, t) ==
  LET i == obtener_usuario_por_email(m.usuarios, usuario_email)
      usuario_id == IF usuario_email = << >> THEN PyNone ELSE PyStr(m.usuarios[i].id)
      nueva == Tarea__init__(uuid4(m.uuid), strip(titulo), fecha_limite, usuario_id, t)
      j == obtener_usuario_por_id(m.usuarios, usuario_id.val)
  IN IF strip(titulo) = << >> THEN [sale |-> "return", retorno |-> PyNone, mem |-> m]
     ELSE IF fecha_limite # PyNone /\ fecha_limite.val <= t
       THEN [sale |-> "return", retorno |-> PyNone, mem |-> m]
     ELSE IF usuario_email # << >> /\ i = 0
       THEN [sale |-> "return", retorno |-> PyNone, mem |-> m]
     ELSE IF nueva.sale # "return" THEN [sale |-> "return", retorno |-> PyNone, mem |-> m]
     ELSE [sale |-> "return", retorno |-> PyStr(nueva.tarea.id),
           mem |-> [m EXCEPT
                      !.tareas = Append(@, nueva.tarea),
                      !.usuarios = IF usuario_id # PyNone /\ j # 0
                                        /\ ~Esta(nueva.tarea.id, @[j].tareas_asignadas)
                                     THEN [@ EXCEPT ![j].tareas_asignadas =
                                                      Append(@, nueva.tarea.id)]
                                     ELSE @,
                      !.uuid = @ + 1]]

\* mutant: the previous owner's list keeps the task
asignar_tarea_sin_desasignar(m, tarea_id, usuario_email) == LET k == obtener_tarea_por_id(m.tareas, tarea_id) i == obtener_usuario_por_email(m.usuarios, usuario_email) IN IF k = 0 \/ i = 0 THEN [sale |-> "return", retorno |-> PyBool(FALSE), mem |-> m] ELSE [sale |-> "return", retorno |-> PyBool(TRUE), mem |-> [m EXCEPT !.tareas[k].usuario_id = PyStr(m.usuarios[i].id), !.usuarios[i].tareas_asignadas = IF Esta(tarea_id, @) THEN @ ELSE Append(@, tarea_id)]]

asignar_tarea(m, tarea_id, usuario_email) ==
  LET k == obtener_tarea_por_id(m.tareas, tarea_id)
      i == obtener_usuario_por_email(m.usuarios, usuario_email)
      anterior == IF m.tareas[k].usuario_id = PyNone THEN 0
                  ELSE obtener_usuario_por_id(m.usuarios, m.tareas[k].usuario_id.val)
      desasignados == IF anterior # 0
                        THEN [m.usuarios EXCEPT ![anterior].tareas_asignadas = remove(@, tarea_id)]
                        ELSE m.usuarios
  IN IF k = 0 THEN [sale |-> "return", retorno |-> PyBool(FALSE), mem |-> m]
     ELSE IF i = 0 THEN [sale |-> "return", retorno |-> PyBool(FALSE), mem |-> m]
     ELSE [sale |-> "return", retorno |-> PyBool(TRUE),
           mem |-> [m EXCEPT
                      !.tareas[k].usuario_id = PyStr(m.usuarios[i].id),
                      !.usuarios = [desasignados EXCEPT ![i].tareas_asignadas =
                                      IF Esta(tarea_id, @) THEN @ ELSE Append(@, tarea_id)]]]

eliminar_tarea(m, tarea_id) ==
  LET k == obtener_tarea_por_id(m.tareas, tarea_id)
      j == IF m.tareas[k].usuario_id = PyNone THEN 0
           ELSE obtener_usuario_por_id(m.usuarios, m.tareas[k].usuario_id.val)
  IN IF k = 0 THEN [sale |-> "return", retorno |-> PyBool(FALSE), mem |-> m]
     ELSE [sale |-> "return", retorno |-> PyBool(TRUE),
           mem |-> [m EXCEPT
                      !.usuarios = IF j # 0
                                     THEN [@ EXCEPT ![j].tareas_asignadas = remove(@, tarea_id)]
                                     ELSE @,
                      !.tareas = Quitar(@, k)]]

\* mutant: a user is removed whether or not tasks are assigned to them
eliminar_usuario_sin_prueba(m, usuario_id) == LET i == obtener_usuario_por_id(m.usuarios, usuario_id) IN IF i = 0 THEN [sale |-> "return", retorno |-> PyBool(FALSE), mem |-> m] ELSE [sale |-> "return", retorno |-> PyBool(TRUE), mem |-> [m EXCEPT !.usuarios = Quitar(@, i)]]

eliminar_usuario(m, usuario_id) ==
  LET i == obtener_usuario_por_id(m.usuarios, usuario_id)
      tareas_asignadas == SelectSeq(m.tareas, LAMBDA x : x.usuario_id = PyStr(usuario_id))
  IN IF i = 0 THEN [sale |-> "return", retorno |-> PyBool(FALSE), mem |-> m]
     ELSE IF tareas_asignadas # << >>
       THEN [sale |-> "return", retorno |-> PyBool(FALSE), mem |-> m]
     ELSE [sale |-> "return", retorno |-> PyBool(TRUE),
           mem |-> [m EXCEPT !.usuarios = Quitar(@, i)]]

(***************************************************************************)
(* The state machine of one GestorSistema on a new directory: its five     *)
(* operations on users and tasks, called in any order with any arguments.  *)
(***************************************************************************)
NombresDeUsuario == {<<"a", " ", "b">>, <<" ">>}
Correos ==
  { <<"a", "@", "b", ".", "a">>, <<" ", "A", "@", "b", ".", "a", " ">>,
    <<"A", "@", "B", ".", "A">>, <<"b", "@", "b", ".", "a">>, <<"a", ".", "b">> }
Titulos == {<<"a">>, <<" ">>}
\* no due date, one that has passed, one within a day and one a year ahead
Plazos ==
  {PyNone, PyDatetime(0), PyDatetime(Inicio + MedioDia), Instante(1, 1, 0)}
IdDesconocido == "x"

SistemaVacio == [usuarios |-> << >>, tareas |-> << >>, uuid |-> 1]

IdsDe(s) == {s[i].id : i \in DOMAIN s}

InitSistema ==
  /\ fs = RaizNueva
  /\ now = Inicio
  /\ ret = [op |-> "__init__"]
  /\ llamadas = 0
  /\ mem = SistemaVacio

\* what a call leaves in the state: r is the result of the operation
Hecho(op, args, r) ==
  /\ llamadas < MaxOperaciones
  /\ mem' = r.mem
  /\ ret' = [op |-> op, args |-> args, sale |-> r.sale, retorno |-> r.retorno,
             previo |-> mem, at |-> now]
  /\ llamadas' = llamadas + 1
  /\ UNCHANGED <<fs, now>>

CrearUsuario(nombre, email) ==
  Hecho("crear_usuario", [nombre |-> nombre, email |-> email],
        crear_usuario(mem, nombre, email, now))

CrearTarea(titulo, fecha_limite, usuario_email) ==
  Hecho("crear_tarea",
        [titulo |-> titulo, fecha_limite |-> fecha_limite, email |-> usuario_email],
        crear_tarea(mem, titulo, fecha_limite, usuario_email, now))

AsignarTarea(tarea_id, usuario_email) ==
  Hecho("asignar_tarea", [id |-> tarea_id, email |-> usuario_email],
        asignar_tarea(mem, tarea_id, usuario_email))

EliminarTarea(tarea_id) ==
  Hecho("eliminar_tarea", [id |-> tarea_id], eliminar_tarea(mem, tarea_id))

EliminarUsuario(usuario_id) ==
  Hecho("eliminar_usuario", [id |-> usuario_id], eliminar_usuario(mem, usuario_id))

NextSistema ==
  \/ \E nombre \in NombresDeUsuario, email \in Correos : CrearUsuario(nombre, email)
  \/ \E titulo \in Titulos, fecha_limite \in Plazos, email \in Correos \cup {<< >>} :
       CrearTarea(titulo, fecha_limite, email)
  \/ \E tarea_id \in IdsDe(mem.tareas) \cup {IdDesconocido}, email \in Correos :
       AsignarTarea(tarea_id, email)
  \/ \E tarea_id \in IdsDe(mem.tareas) \cup {IdDesconocido} : EliminarTarea(tarea_id)
  \/ \E usuario_id \in IdsDe(mem.usuarios) \cup {IdDesconocido} : EliminarUsuario(usuario_id)

SpecSistema == InitSistema /\ [][NextSistema]_vars

Registrado(usuarios, email) ==
  \E i \in DOMAIN usuarios : usuarios[i].email = lower(strip(email))

\* C23: no two users have the same stored e-mail, and crear_usuario with an
\* e-mail that is registered, in any letter case and with any surrounding
\* whitespace, returns None and leaves the users as they were.
C23_CorreosUnicos ==
  /\ \A i, j \in DOMAIN mem.usuarios :
       i # j => mem.usuarios[i].email # mem.usuarios[j].email
  /\ (ret.op = "crear_usuario" /\ Registrado(ret.previo.usuarios, ret.args.email)) =>
       /\ ret.retorno = PyNone
       /\ mem.usuarios = ret.previo.usuarios

Asignada(x, u) ==
  \E k \in DOMAIN mem.tareas :
    mem.tareas[k].id = x /\ mem.tareas[k].usuario_id = PyStr(u.id)

\* C24: a task id is in a user's tareas_asignadas iff the task exists and its
\* usuario_id is that user's id; a task id is in at most one user's list, and
\* at most once.
C24_AsignacionConsistente ==
  /\ \A i \in DOMAIN mem.usuarios :
       /\ \A x \in IdsDe(mem.tareas) \cup RangeOf(mem.usuarios[i].tareas_asignadas) :
            Esta(x, mem.usuarios[i].tareas_asignadas) <=> Asignada(x, mem.usuarios[i])
       /\ \A a, b \in DOMAIN mem.usuarios[i].tareas_asignadas :
            a # b => mem.usuarios[i].tareas_asignadas[a] # mem.usuarios[i].tareas_asignadas[b]
  /\ \A i, j \in DOMAIN mem.usuarios :
       i # j => RangeOf(mem.usuarios[i].tareas_asignadas)
                  \cap RangeOf(mem.usuarios[j].tareas_asignadas) = {}

\* a task owned by the second of two users is deleted
C24_Witness ==
  /\ ret.op = "eliminar_tarea"
  /\ ret.retorno = PyBool(TRUE)
  /\ Len(ret.previo.usuarios) = 2
  /\ \E k \in DOMAIN ret.previo.tareas :
       /\ ret.previo.tareas[k].id = ret.args.id
       /\ ret.previo.tareas[k].usuario_id = PyStr(ret.previo.usuarios[2].id)
  /\ \A i \in DOMAIN mem.usuarios : mem.usuarios[i].tareas_asignadas = << >>

Momentos ==
  {Inicio + d * TicksPerDay : d \in 0..MaxDias}
    \cup {p.val : p \in {q \in Plazos : q # PyNone}}

isoformat(t) == ToString(t)
fromisoformat(s) == CHOOSE t \in Momentos : isoformat(t) = s

\* the texts a stored record can hold: the names, e-mails and titles as stored
Cadenas ==
  {title(strip(n)) : n \in NombresDeUsuario} \cup {lower(strip(e)) : e \in Correos}
    \cup {title(strip(x)) : x \in Titulos}
Cadena(s) == CHOOSE c \in Cadenas : Texto(c) = s

Get(data, k) == data.val[PyStr(k)]

Usuario_to_dict(u) ==
  PyDict(Campo("id", PyStr(u.id)) @@ Campo("nombre", PyStr(Texto(u.nombre)))
           @@ Campo("email", PyStr(Texto(u.email)))
           @@ Campo("fecha_registro", PyStr(isoformat(u.fecha_registro)))
           @@ Campo("tareas_asignadas",
                    PyList([i \in DOMAIN u.tareas_asignadas |-> PyStr(u.tareas_asignadas[i])])))

Usuario_from_dict(data, t) ==
  LET nuevo == Usuario("", Cadena(Get(data, "nombre").val), Cadena(Get(data, "email").val), t)
      asignadas == Get(data, "tareas_asignadas").val
  IN IF nuevo.sale # "return" THEN nuevo
     ELSE [sale |-> "return",
           usuario |-> [nuevo.usuario EXCEPT
                          !.id = Get(data, "id").val,
                          !.fecha_registro = fromisoformat(Get(data, "fecha_registro").val),
                          !.tareas_asignadas = [i \in DOMAIN asignadas |-> asignadas[i].val]]]

Tarea_to_dict(x) ==
  PyDict(Campo("id", PyStr(x.id)) @@ Campo("titulo", PyStr(Texto(x.titulo)))
           @@ Campo("fecha_creacion", PyStr(isoformat(x.fecha_creacion)))
           @@ Campo("fecha_limite", IF x.fecha_limite # PyNone
                                      THEN PyStr(isoformat(x.fecha_limite.val)) ELSE PyNone)
           @@ Campo("estado", PyStr(x.estado))
           @@ Campo("usuario_id", x.usuario_id))

Tarea_from_dict(data, t) ==
  LET fecha_limite == IF Get(data, "fecha_limite") = PyNone THEN PyNone
                      ELSE PyDatetime(fromisoformat(Get(data, "fecha_limite").val))
      nueva == Tarea__init__("", Cadena(Get(data, "titulo").val), fecha_limite,
                             Get(data, "usuario_id"), t)
  IN IF nueva.sale # "return" THEN nueva
     ELSE [sale |-> "return",
           tarea |-> [nueva.tarea EXCEPT
                        !.id = Get(data, "id").val,
                        !.fecha_creacion = fromisoformat(Get(data, "fecha_creacion").val),
                        !.estado = Get(data, "estado").val]]

\* guardar_datos_sistema("json"): the two saves in order; an exception of a
\* save is caught and the call returns False
guardar_datos_sistema(m, f, t) ==
  LET usuarios_data == PyList([i \in DOMAIN m.usuarios |-> Usuario_to_dict(m.usuarios[i])])
      tareas_data == PyList([i \in DOMAIN m.tareas |-> Tarea_to_dict(m.tareas[i])])
      r1 == json_guardar_datos(f, t, archivo_usuarios, usuarios_data, TRUE, FALSE, FALSE)
      r2 == json_guardar_datos(r1.fs, t, archivo_tareas, tareas_data, TRUE, FALSE, FALSE)
  IN IF r1.sale # "return" THEN [sale |-> "return", retorno |-> PyBool(FALSE), fs |-> r1.fs]
     ELSE IF r2.sale # "return" THEN [sale |-> "return", retorno |-> PyBool(FALSE), fs |-> r2.fs]
     ELSE [sale |-> "return", retorno |-> PyBool(Truthy(r1.retorno) /\ Truthy(r2.retorno)),
           fs |-> r2.fs]

Lanzan(s) == \E i \in DOMAIN s : s[i].sale # "return"

\* _cargar_datos_sistema: a collection is replaced when the store returns a
\* non-empty one; an exception of from_dict ends the call where it stands and
\* is logged (aviso), not raised
_cargar_datos_sistema(m, f, t) ==
  LET usuarios_data == json_cargar_datos(f, archivo_usuarios, FALSE).retorno
      tareas_data == json_cargar_datos(f, archivo_tareas, FALSE).retorno
      us == [i \in DOMAIN usuarios_data.val |-> Usuario_from_dict(usuarios_data.val[i], t)]
      ts == [i \in DOMAIN tareas_data.val |-> Tarea_from_dict(tareas_data.val[i], t)]
      m1 == IF Truthy(usuarios_data)
              THEN [m EXCEPT !.usuarios = [i \in DOMAIN us |-> us[i].usuario]] ELSE m
      m2 == IF Truthy(tareas_data)
              THEN [m1 EXCEPT !.tareas = [i \in DOMAIN ts |-> ts[i].tarea]] ELSE m1
  IN IF Truthy(usuarios_data) /\ Lanzan(us)
       THEN [sale |-> "return", retorno |-> PyNone, aviso |-> "ValueError", mem |-> m]
     ELSE IF Truthy(tareas_data) /\ Lanzan(ts)
       THEN [sale |-> "return", retorno |-> PyNone, aviso |-> "ValueError", mem |-> m1]
     ELSE [sale |-> "return", retorno |-> PyNone, aviso |-> "", mem |-> m2]

\* GestorSistema(directorio): empty lists, then the load
GestorSistema__init__(m, f, t) ==
  _cargar_datos_sistema([m EXCEPT !.usuarios = << >>, !.tareas = << >>], f, t)

(***************************************************************************)
(* The state machine of a directory used by one GestorSistema after        *)
(* another: users and tasks are created and deleted, the system is saved,  *)
(* loaded again or initialised anew, and the clock moves on by days.  The  *)
(* reads and writes of the store succeed.                                  *)
(***************************************************************************)
CorreosValidos == {<<"a", "@", "b", ".", "a">>, <<"b", "@", "b", ".", "a">>}
PlazosFuturos == {p \in Plazos : p = PyNone \/ p.val > Inicio}

GuardarDatosSistema ==
  /\ llamadas < MaxOperaciones
  /\ LET r == guardar_datos_sistema(mem, fs, now)
     IN /\ fs' = r.fs
        /\ ret' = [op |-> "guardar_datos_sistema", args |-> [formato |-> "json"],
                   sale |-> r.sale, retorno |-> r.retorno, previo |-> mem, at |-> now]
  /\ llamadas' = llamadas + 1
  /\ UNCHANGED <<now, mem>>

CargaDelSistema(op, r) ==
  /\ llamadas < MaxOperaciones
  /\ mem' = r.mem
  /\ ret' = [op |-> op, args |-> [formato |-> "json"], sale |-> r.sale,
             retorno |-> r.retorno, aviso |-> r.aviso, previo |-> mem, at |-> now]
  /\ llamadas' = llamadas + 1
  /\ UNCHANGED <<fs, now>>

CargarDatosSistema == CargaDelSistema("_cargar_datos_sistema", _cargar_datos_sistema(mem, fs, now))

\* the process ends and a new GestorSistema is built on the directory
Reiniciar == CargaDelSistema("GestorSistema", GestorSistema__init__(mem, fs, now))

\* a day passes between two calls
Pasa ==
  /\ now < Inicio + MaxDias * TicksPerDay
  /\ now' = now + TicksPerDay
  /\ UNCHANGED <<fs, ret, llamadas, mem>>

NextRecarga ==
  \/ \E nombre \in NombresDeUsuario, email \in CorreosValidos : CrearUsuario(nombre, email)
  \/ \E fecha_limite \in PlazosFuturos, email \in {<< >>, <<"a", "@", "b", ".", "a">>} :
       CrearTarea(<<"a">>, fecha_limite, email)
  \/ \E tarea_id \in IdsDe(mem.tareas) : EliminarTarea(tarea_id)
  \/ \E usuario_id \in IdsDe(mem.usuarios) : EliminarUsuario(usuario_id)
  \/ GuardarDatosSistema
  \/ CargarDatosSistema
  \/ Reiniciar
  \/ Pasa

SpecRecarga == InitSistema /\ [][NextRecarga]_vars

\* the collection the store holds under a name: empty when the file is absent
Almacenado(nombre_archivo) ==
  LET r == json_cargar_datos(fs, nombre_archivo, FALSE).retorno
  IN IF r = PyNone THEN << >> ELSE r.val

RegistrosDeUsuarios == [i \in DOMAIN mem.usuarios |-> Usuario_to_dict(mem.usuarios[i])]
RegistrosDeTareas == [i \in DOMAIN mem.tareas |-> Tarea_to_dict(mem.tareas[i])]

MismaTarea(a, b) ==
  \A c \in {"id", "estado", "fecha_limite", "usuario_id"} : Get(a, c) = Get(b, c)

\* C26: every task guardar_datos_sistema wrote is, with the same id, state,
\* due date and owner, in the task list of a GestorSistema initialised later
\* on the same directory, also when its due date has passed by then.
C26_TareasGuardadasSeCargan ==
  ret.op = "GestorSistema" =>
    \A i \in DOMAIN Almacenado(archivo_tareas) :
      \E k \in DOMAIN RegistrosDeTareas :
        MismaTarea(RegistrosDeTareas[k], Almacenado(archivo_tareas)[i])

\* C27: after _cargar_datos_sistema completes without error the users and
\* tasks in memory are exactly the stored collections, also when a stored
\* collection is empty or absent; nothing of the previous memory survives.
C27_CargarReemplazaLaMemoria ==
  (ret.op = "_cargar_datos_sistema" /\ ret.aviso = "") =>
    /\ RegistrosDeUsuarios = Almacenado(archivo_usuarios)
    /\ RegistrosDeTareas = Almacenado(archivo_tareas)

(***************************************************************************)
(* GestorTareas with auto_guardar: every operation that changes a          *)
(* collection writes it to the JSON store before it returns.  A result     *)
(* holds the objects and the store the call leaves; sale is the exception  *)
(* it raises, or "return".  The reads and writes of the store succeed.     *)
(***************************************************************************)
\* re.sub(r'\s+', ' ', s): a run of blanks becomes one blank
RECURSIVE UnEspacio(_)
UnEspacio(s) ==
  IF Len(s) < 2 THEN s
  ELSE IF s[1] = " " /\ s[2] = " " THEN UnEspacio(Tail(s))
  ELSE <<s[1]>> \o UnEspacio(Tail(s))

\* formatear_titulo, for titles without a hyphen
formatear_titulo(titulo) == title(UnEspacio(strip(titulo)))

\* formatear_nombre_completo: the words in lower case with an upper-case
\* initial, joined by one blank; only the first character of a word is raised
formatear_nombre_completo(nombre) ==
  LET s == UnEspacio(strip(nombre))
  IN [i \in DOMAIN s |->
        IF i = 1 \/ s[i - 1] = " " THEN upper(<<s[i]>>)[1] ELSE lower(<<s[i]>>)[1]]

_buscar_usuario_por_email(usuarios, email) ==
  IF \E i \in DOMAIN usuarios : lower(usuarios[i].email) = lower(email)
    THEN Primero({i \in DOMAIN usuarios : lower(usuarios[i].email) = lower(email)}) ELSE 0

\* the instances handed to the store, which calls to_dict on each
ObjetosUsuario(usuarios) ==
  PyList([i \in DOMAIN usuarios |-> PyObj(Usuario_to_dict(usuarios[i]).val)])
ObjetosTarea(tareas) ==
  PyList([i \in DOMAIN tareas |-> PyObj(Tarea_to_dict(tareas[i]).val)])

_guardar_usuarios(m, f, t) ==
  json_guardar_datos(f, t, archivo_usuarios, ObjetosUsuario(m.usuarios), TRUE, FALSE, FALSE).fs
_guardar_tareas(m, f, t) ==
  json_guardar_datos(f, t, archivo_tareas, ObjetosTarea(m.tareas), TRUE, FALSE, FALSE).fs

Resultado(sale, retorno, m, f) == [sale |-> sale, retorno |-> retorno, mem |-> m, fs |-> f]

GestorTareas_crear_usuario(m, f, t, nombre, email) ==
  LET nombre_formateado == formatear_nombre_completo(nombre)
      v == validar_y_formatear_email(email)
      nuevo == Usuario(uuid4(m.uuid), nombre_formateado, v.email, t)
      m1 == [m EXCEPT !.usuarios = Append(@, nuevo.usuario), !.uuid = @ + 1]
  IN IF ~v.valido THEN Resultado("ValueError", PyNone, m, f)
     ELSE IF _buscar_usuario_por_email(m.usuarios, v.email) # 0
       THEN Resultado("ValueError", PyNone, m, f)
     ELSE IF nuevo.sale # "return" THEN Resultado(nuevo.sale, PyNone, m, f)
     ELSE Resultado("return", PyStr(nuevo.usuario.id), m1, _guardar_usuarios(m1, f, t))

actualizar_usuario(m, f, t, usuario_id, nuevo_nombre, nuevo_email) ==
  LET i == obtener_usuario_por_id(m.usuarios, usuario_id)
      m1 == IF nuevo_nombre # << >>
              THEN [m EXCEPT !.usuarios[i].nombre = formatear_nombre_completo(nuevo_nombre)]
              ELSE m
      v == validar_y_formatear_email(nuevo_email)
      k == _buscar_usuario_por_email(m1.usuarios, v.email)
      m2 == IF nuevo_email # << >> THEN [m1 EXCEPT !.usuarios[i].email = v.email] ELSE m1
  IN IF i = 0 THEN Resultado("return", PyBool(FALSE), m, f)
     ELSE IF nuevo_email # << >> /\ ~v.valido THEN Resultado("ValueError", PyNone, m1, f)
     ELSE IF nuevo_email # << >> /\ k # 0 /\ m1.usuarios[k].id # usuario_id
       THEN Resultado("ValueError", PyNone, m1, f)
     ELSE Resultado("return", PyBool(TRUE), m2, _guardar_usuarios(m2, f, t))

\* Usuario.agregar_tarea and remover_tarea on the user at position i
agregar_tarea(usuarios, i, tarea_id) ==
  IF Esta(tarea_id, usuarios[i].tareas_asignadas) THEN usuarios
  ELSE [usuarios EXCEPT ![i].tareas_asignadas = Append(@, tarea_id)]
remover_tarea(usuarios, i, tarea_id) ==
  [usuarios EXCEPT ![i].tareas_asignadas = remove(@, tarea_id)]

\* usuario_id is a Python value: None, or the str of an id
GestorTareas_crear_tarea(m, f, t, titulo, fecha_limite, usuario_id) ==
  LET titulo_formateado == formatear_titulo(titulo)
      i == IF Truthy(usuario_id) THEN obtener_usuario_por_id(m.usuarios, usuario_id.val) ELSE 0
      nueva == Tarea__init__(uuid4(m.uuid), titulo_formateado, fecha_limite, usuario_id, t)
      m1 == [m EXCEPT !.tareas = Append(@, nueva.tarea),
                      !.usuarios = IF i # 0 THEN agregar_tarea(@, i, nueva.tarea.id) ELSE @,
                      !.uuid = @ + 1]
      f1 == _guardar_tareas(m1, f, t)
  IN IF Truthy(usuario_id) /\ i = 0 THEN Resultado("ValueError", PyNone, m, f)
     ELSE IF nueva.sale # "return" THEN Resultado(nueva.sale, PyNone, m, f)
     ELSE Resultado("return", PyStr(nueva.tarea.id), m1,
                    IF Truthy(usuario_id) THEN _guardar_usuarios(m1, f1, t) ELSE f1)

\* nuevo_estado is a member of EstadoTarea, or a value of another type
actualizar_estado_tarea(m, f, t, tarea_id, nuevo_estado) ==
  LET k == obtener_tarea_por_id(m.tareas, tarea_id)
      m1 == [m EXCEPT !.tareas[k].estado = nuevo_estado]
  IN IF k = 0 THEN Resultado("return", PyBool(FALSE), m, f)
     ELSE IF nuevo_estado \notin EstadoTarea THEN Resultado("ValueError", PyNone, m, f)
     ELSE Resultado("return", PyBool(TRUE), m1, _guardar_tareas(m1, f, t))

reasignar_tarea(m, f, t, tarea_id, nuevo_usuario_id) ==
  LET k == obtener_tarea_por_id(m.tareas, tarea_id)
      i == IF Truthy(nuevo_usuario_id)
             THEN obtener_usuario_por_id(m.usuarios, nuevo_usuario_id.val) ELSE 0
      anterior == IF Truthy(m.tareas[k].usuario_id)
                    THEN obtener_usuario_por_id(m.usuarios, m.tareas[k].usuario_id.val) ELSE 0
      sin_anterior == IF anterior # 0 THEN remover_tarea(m.usuarios, anterior, tarea_id)
                      ELSE m.usuarios
      m1 == [m EXCEPT !.tareas[k].usuario_id = nuevo_usuario_id,
                      !.usuarios = IF i # 0 THEN agregar_tarea(sin_anterior, i, tarea_id)
                                   ELSE sin_anterior]
  IN IF k = 0 THEN Resultado("return", PyBool(FALSE), m, f)
     ELSE IF Truthy(nuevo_usuario_id) /\ i = 0 THEN Resultado("ValueError", PyNone, m, f)
     ELSE Resultado("return", PyBool(TRUE), m1,
                    _guardar_usuarios(m1, _guardar_tareas(m1, f, t), t))

(***************************************************************************)
(* The state machine of one GestorTareas on a new directory.               *)
(***************************************************************************)
NuevosNombres == {<< >>, <<"b", " ", " ", "a">>}
NuevosCorreos == {<< >>, <<"a", ".", "b">>, <<"a", "@", "b", ".", "a">>, <<" ", "B", "@", "b", ".", "a">>}
NuevosEstados == {"completada", "en_progreso", "Completada"}
UsuariosDe(m) == {PyNone} \cup {PyStr(x) : x \in IdsDe(m.usuarios) \cup {IdDesconocido}}

\* what a call leaves in the state: r is the result of the operation
HechoYGuardado(op, args, r) ==
  /\ llamadas < MaxOperaciones
  /\ mem' = r.mem
  /\ fs' = r.fs
  /\ ret' = [op |-> op, args |-> args, sale |-> r.sale, retorno |-> r.retorno,
             previo |-> mem, antes |-> fs, at |-> now]
  /\ llamadas' = llamadas + 1
  /\ UNCHANGED now

TareasCrearUsuario(nombre, email) ==
  HechoYGuardado("crear_usuario", [nombre |-> nombre, email |-> email],
                 GestorTareas_crear_usuario(mem, fs, now, nombre, email))

TareasActualizarUsuario(usuario_id, nuevo_nombre, nuevo_email) ==
  HechoYGuardado("actualizar_usuario",
                 [id |-> usuario_id, nombre |-> nuevo_nombre, email |-> nuevo_email],
                 actualizar_usuario(mem, fs, now, usuario_id, nuevo_nombre, nuevo_email))

TareasCrearTarea(titulo, fecha_limite, usuario_id) ==
  HechoYGuardado("crear_tarea",
                 [titulo |-> titulo, fecha_limite |-> fecha_limite, usuario_id |-> usuario_id],
                 GestorTareas_crear_tarea(mem, fs, now, titulo, fecha_limite, usuario_id))

TareasActualizarEstadoTarea(tarea_id, nuevo_estado) ==
  HechoYGuardado("actualizar_estado_tarea", [id |-> tarea_id, estado |-> nuevo_estado],
                 actualizar_estado_tarea(mem, fs, now, tarea_id, nuevo_estado))

TareasReasignarTarea(tarea_id, nuevo_usuario_id) ==
  HechoYGuardado("reasignar_tarea", [id |-> tarea_id, usuario_id |-> nuevo_usuario_id],
                 reasignar_tarea(mem, fs, now, tarea_id, nuevo_usuario_id))

NextTareas ==
  \/ \E nombre \in NombresDeUsuario, email \in Correos : TareasCrearUsuario(nombre, email)
  \/ \E usuario_id \in IdsDe(mem.usuarios) \cup {IdDesconocido},
        nuevo_nombre \in NuevosNombres, nuevo_email \in NuevosCorreos :
       TareasActualizarUsuario(usuario_id, nuevo_nombre, nuevo_email)
  \/ \E titulo \in Titulos, fecha_limite \in Plazos, usuario_id \in UsuariosDe(mem) :
       TareasCrearTarea(titulo, fecha_limite, usuario_id)
  \/ \E tarea_id \in IdsDe(mem.tareas) \cup {IdDesconocido}, nuevo_estado \in NuevosEstados :
       TareasActualizarEstadoTarea(tarea_id, nuevo_estado)
  \/ \E tarea_id \in IdsDe(mem.tareas) \cup {IdDesconocido}, usuario_id \in UsuariosDe(mem) :
       TareasReasignarTarea(tarea_id, usuario_id)

SpecTareas == InitSistema /\ [][NextTareas]_vars

\* C30: after each operation of GestorTareas returns or raises, the JSON
\* store holds exactly the record forms of the users and tasks in memory, and
\* an operation that raises leaves memory and the stored files as they were.
C30_AlmacenAlDiaConLaMemoria ==
  ret.op # "__init__" =>
    /\ Almacenado(archivo_usuarios) = RegistrosDeUsuarios
    /\ Almacenado(archivo_tareas) = RegistrosDeTareas
    /\ ret.sale # "return" => (mem = ret.previo /\ fs = ret.antes)

====
